---- MODULE Spec2Model ----
(***************************************************************************)
(* Job queue and worker fleet of the evaluation control plane.             *)
(*                                                                         *)
(* The job registry (apps/web/lib/jobStore.ts), the credential registry    *)
(* (apps/web/lib/workerRegistryStore.ts), the worker directory             *)
(* (apps/web/lib/workerStore.ts) and the run-worker polling loop are       *)
(* modelled as state machines over the JSON files they keep.  Every store  *)
(* function is "read the whole file, compute, write the whole file"; the   *)
(* computation is a pure operator here, used both by the specifications    *)
(* in which calls do not overlap and by those in which the read and the    *)
(* write of a call are separate steps.                                     *)
(*                                                                         *)
(* Timestamps (ISO strings compared with localeCompare) are naturals read  *)
(* from the clock `now`.  An optional field is a set: {} when the field    *)
(* is absent (undefined), {v} when it holds v.  Ids built from Date.now()  *)
(* and Math.random() are drawn from counters, i.e. taken to be fresh.      *)
(* The store files are taken to exist; reads and writes of them succeed,   *)
(* except in SpecFs, where they may fail.  INGEST_API_KEY is not set in    *)
(* Init (the store functions never read it); in InitHttp it is either set  *)
(* or not.                                                                 *)
(***************************************************************************)
EXTENDS Naturals, Sequences, FiniteSets, TLC

\* ------------------------------------------------------------------ bounds
MaxJobs == 2
MaxTime == 2
MaxCalls == 5
MaxOverlap == 3

\* ------------------------------------------------------------------ inputs
Workers == {"w1", "w2"}
Teams == {"t"}
Submitters == {"alice"}
Configs == {"C"}
ErrorMessages == {"boom"}
EventInputs == {[level |-> "info", message |-> "m1"],
                [level |-> "error", message |-> "m2"]}
JobIds == 1..(MaxJobs + 1)
Handlers == {"h1", "h2"}

VARIABLES
  jobs,     \* data/jobs.json: the sequence of job records
  runs,     \* data/runs.json: the sequence of stored run ids
  now,      \* the wall clock read by new Date()
  jobSeq,   \* number of job ids generated so far
  runSeq,   \* number of run ids generated so far
  calls,    \* number of calls made to the control plane so far
  last,     \* the call that returned last, with what it returned
  pend,     \* request handlers in flight: where each is and what it holds
  returned, \* the (worker, job) pairs claim calls have returned so far
  acked,    \* the (job, event) pairs appendEvent calls have acknowledged
  entries,  \* data/worker-registry.json: the sequence of credential entries
  tokSeq,   \* number of tokens generated so far
  issued,   \* per worker id, the token its last register/rotate returned,
            \* until a revoke for that id returns
  revoked,  \* the (worker, token) pairs whose revocation has returned
  workers,  \* data/workers.json: the sequence of worker directory rows
  agent,    \* per worker agent: its place in the run-worker loop and its locals
  faults,   \* number of control-plane calls that have failed so far
  handled,  \* ids of the jobs a worker agent has claimed and is done with
  env,      \* process.env.INGEST_API_KEY of the control plane: {} when not set
  reports   \* the terminal reports worker agents have sent: worker, job,
            \* status, and whether the agent got an OK response

storeFiles == <<jobs, runs, jobSeq, runSeq>>
concVars == <<pend, returned, acked>>
regVars == <<entries, tokSeq, issued, revoked>>
agentVars == <<workers, agent, faults, handled>>
vars == <<jobs, runs, now, jobSeq, runSeq, calls, last, pend, returned, acked,
          entries, tokSeq, issued, revoked, workers, agent, faults, handled, env,
          reports>>

\* ----------------------------------------------------------------- helpers
Undefined == {}
Some(x) == {x}

Range(s) == {s[i] : i \in DOMAIN s}

TheOne(S) == CHOOSE x \in S : TRUE

IsPrefix(s, t) == Len(s) <= Len(t) /\ \A i \in 1..Len(s) : s[i] = t[i]

Terminal == {"completed", "failed", "cancelled"}

\* jobs.find((job) => job.id === id): the first job with that id, if any
FindJob(js, id) ==
  LET I == {i \in DOMAIN js : js[i].id = id}
  IN IF I = {} THEN Undefined
     ELSE Some(js[CHOOSE i \in I : \A k \in I : i <= k])

\* what a store function hands back: whether it wrote, the list it wrote
\* (or the list it read), and its return value
Outcome(wrote, js, res) == [wrote |-> wrote, jobs |-> js, result |-> res]

\* ---------------------------------------------------------------- jobStore
\* the job written in place of the file's contents instead of pushed onto them
createJob_Overwrite(js, id, t, input) ==
  LET job == [id |-> id, status |-> "queued", createdAt |-> t, updatedAt |-> t,
              team |-> input.team, submittedBy |-> input.submittedBy,
              config |-> input.config,
              events |-> <<[at |-> t, level |-> "info", message |-> "Job queued"]>>,
              startedAt |-> Undefined, finishedAt |-> Undefined,
              workerId |-> Undefined, errorMessage |-> Undefined,
              reportId |-> Undefined]
  IN Outcome(TRUE, <<job>>, Some(job))

createJob(js, id, t, input) ==
  LET job == [id |-> id, status |-> "queued", createdAt |-> t, updatedAt |-> t,
              team |-> input.team, submittedBy |-> input.submittedBy,
              config |-> input.config,
              events |-> <<[at |-> t, level |-> "info", message |-> "Job queued"]>>,
              startedAt |-> Undefined, finishedAt |-> Undefined,
              workerId |-> Undefined, errorMessage |-> Undefined,
              reportId |-> Undefined]
  IN Outcome(TRUE, Append(js, job), Some(job))

\* the comparator turned round: the newest queued job first
OldestQueued_Newest(js) ==
  LET Q == {i \in DOMAIN js : js[i].status = "queued"}
  IN IF Q = {} THEN Undefined
     ELSE Some(js[CHOOSE i \in Q : \A k \in Q :
                    \/ js[i].createdAt > js[k].createdAt
                    \/ js[i].createdAt = js[k].createdAt /\ i <= k])

\* only the first record of the file is looked at
OldestQueued_FirstOnly(js) ==
  IF js = <<>> \/ js[1].status # "queued" THEN Undefined ELSE Some(js[1])

\* the filter letting running jobs through as well
OldestQueued_OrRunning(js) ==
  LET Q == {i \in DOMAIN js : js[i].status \in {"queued", "running"}}
  IN IF Q = {} THEN Undefined
     ELSE Some(js[CHOOSE i \in Q : \A k \in Q :
                    \/ js[i].createdAt < js[k].createdAt
                    \/ js[i].createdAt = js[k].createdAt /\ i <= k])

\* jobs.filter(queued).sort(createdAt ascending)[0]; the sort is stable, so
\* among equal createdAt the job that comes first in the file wins
OldestQueued(js) ==
  LET Q == {i \in DOMAIN js : js[i].status = "queued"}
  IN IF Q = {} THEN Undefined
     ELSE Some(js[CHOOSE i \in Q : \A k \in Q :
                    \/ js[i].createdAt < js[k].createdAt
                    \/ js[i].createdAt = js[k].createdAt /\ i <= k])

\* the claim stamping createdAt as well
ClaimedJob_Restamp(job, workerId, t) ==
  [job EXCEPT !.status = "running",
              !.workerId = Some(workerId),
              !.startedAt = Some(t),
              !.updatedAt = t,
              !.createdAt = t,
              !.events = Append(@, [at |-> t, level |-> "info",
                                    message |-> "Claimed by " \o workerId])]

\* the claim that forgets startedAt
ClaimedJob_NoStart(job, workerId, t) ==
  [job EXCEPT !.status = "running",
              !.workerId = Some(workerId),
              !.updatedAt = t,
              !.events = Append(@, [at |-> t, level |-> "info",
                                    message |-> "Claimed by " \o workerId])]

ClaimedJob(job, workerId, t) ==
  [job EXCEPT !.status = "running",
              !.workerId = Some(workerId),
              !.startedAt = Some(t),
              !.updatedAt = t,
              !.events = Append(@, [at |-> t, level |-> "info",
                                    message |-> "Claimed by " \o workerId])]

\* with no queued job, the first job of the file handed out instead of none
claimNextQueuedJob_Fallback(js, workerId, t) ==
  LET queued == IF OldestQueued(js) = Undefined /\ js # <<>>
                THEN Some(js[1]) ELSE OldestQueued(js)
  IN IF queued = Undefined THEN Outcome(FALSE, js, Undefined)
     ELSE LET q == CHOOSE x \in queued : TRUE
              updatedJobs == [i \in DOMAIN js |->
                                IF js[i].id # q.id THEN js[i]
                                ELSE ClaimedJob(js[i], workerId, t)]
          IN Outcome(TRUE, updatedJobs, FindJob(updatedJobs, q.id))

claimNextQueuedJob(js, workerId, t) ==
  LET queued == OldestQueued(js)
  IN IF queued = Undefined THEN Outcome(FALSE, js, Undefined)
     ELSE LET q == CHOOSE x \in queued : TRUE
              updatedJobs == [i \in DOMAIN js |->
                                IF js[i].id # q.id THEN js[i]
                                ELSE ClaimedJob(js[i], workerId, t)]
          IN Outcome(TRUE, updatedJobs, FindJob(updatedJobs, q.id))

\* the new event put in front of the trail instead of behind it
AppendedJob_Prepend(job, event) ==
  [job EXCEPT !.updatedAt = event.at, !.events = <<event>> \o @]

AppendedJob(job, event) ==
  [job EXCEPT !.updatedAt = event.at, !.events = Append(@, event)]

\* an event on a finished job putting the job back to running
appendJobEvent_Reopen(js, jobId, event) ==
  LET updatedJobs == [i \in DOMAIN js |->
                        IF js[i].id # jobId THEN js[i]
                        ELSE [AppendedJob(js[i], event) EXCEPT
                                !.status = IF @ \in Terminal THEN "running" ELSE @]]
      hit == {i \in DOMAIN js : js[i].id = jobId}
  IN IF hit = {} THEN Outcome(FALSE, js, Undefined)
     ELSE Outcome(TRUE, updatedJobs,
                  Some(updatedJobs[CHOOSE i \in hit : \A k \in hit : i >= k]))

appendJobEvent(js, jobId, event) ==
  LET updatedJobs == [i \in DOMAIN js |->
                        IF js[i].id # jobId THEN js[i]
                        ELSE AppendedJob(js[i], event)]
      hit == {i \in DOMAIN js : js[i].id = jobId}
  IN IF hit = {} THEN Outcome(FALSE, js, Undefined)
     ELSE Outcome(TRUE, updatedJobs,
                  Some(updatedJobs[CHOOSE i \in hit : \A k \in hit : i >= k]))

\* errorMessage and reportId copied only when the input has them (the job's
\* previous values kept otherwise)
CompletedJob_KeepFields(job, input, t) ==
  [job EXCEPT !.status = input.status,
              !.updatedAt = t,
              !.finishedAt = Some(t),
              !.errorMessage = IF input.errorMessage = Undefined THEN @
                               ELSE input.errorMessage,
              !.reportId = IF input.reportId = Undefined THEN @ ELSE input.reportId,
              !.events = Append(@,
                 IF input.status = "completed"
                 THEN [at |-> t, level |-> "info", message |-> "Job completed"]
                 ELSE [at |-> t, level |-> "error",
                       message |-> "Job failed: " \o
                          (IF input.errorMessage = Undefined THEN "undefined"
                           ELSE CHOOSE m \in input.errorMessage : TRUE)])]

\* a failure report for a job no worker has claimed cancels it
CompletedJob_CancelQueued(job, input, t) ==
  [job EXCEPT !.status = IF job.status = "queued" /\ input.status = "failed"
                         THEN "cancelled" ELSE input.status,
              !.updatedAt = t,
              !.finishedAt = Some(t),
              !.errorMessage = input.errorMessage,
              !.reportId = input.reportId,
              !.events = Append(@,
                 IF input.status = "completed"
                 THEN [at |-> t, level |-> "info", message |-> "Job completed"]
                 ELSE [at |-> t, level |-> "error",
                       message |-> "Job failed: " \o
                          (IF input.errorMessage = Undefined THEN "undefined"
                           ELSE CHOOSE m \in input.errorMessage : TRUE)])]

\* input: [jobId, status, errorMessage, reportId], the last two optional
CompletedJob(job, input, t) ==
  [job EXCEPT !.status = input.status,
              !.updatedAt = t,
              !.finishedAt = Some(t),
              !.errorMessage = input.errorMessage,
              !.reportId = input.reportId,
              !.events = Append(@,
                 IF input.status = "completed"
                 THEN [at |-> t, level |-> "info", message |-> "Job completed"]
                 ELSE [at |-> t, level |-> "error",
                       message |-> "Job failed: " \o
                          (IF input.errorMessage = Undefined THEN "undefined"
                           ELSE CHOOSE m \in input.errorMessage : TRUE)])]

completeJob(js, input, t) ==
  LET updatedJobs == [i \in DOMAIN js |->
                        IF js[i].id # input.jobId THEN js[i]
                        ELSE CompletedJob(js[i], input, t)]
      hit == {i \in DOMAIN js : js[i].id = input.jobId}
  IN IF hit = {} THEN Outcome(FALSE, js, Undefined)
     ELSE Outcome(TRUE, updatedJobs,
                  Some(updatedJobs[CHOOSE i \in hit : \A k \in hit : i >= k]))

\* ------------------------------------------------------------ calls, one at a time
Call(op, workerId, jobId, event, status, res) ==
  [op |-> op, workerId |-> workerId, jobId |-> jobId, event |-> event,
   status |-> status, result |-> res]

NoCall == Call("none", Undefined, Undefined, Undefined, Undefined, Undefined)

\* a request handler between its awaits: the stage it has reached, the call
\* it serves (with the value it will return), the timestamp the route took,
\* and the list it is about to write
Handler(stage, call, at, wrote, list) ==
  [stage |-> stage, call |-> call, at |-> at, wrote |-> wrote, list |-> list]

Idle == Handler("idle", NoCall, Undefined, FALSE, <<>>)

\* a run-worker process: where it is in its loop (pc), the --once option, the
\* job it holds, the message its catch block captured
Agent(pc, once, job, message) == [pc |-> pc, once |-> once, job |-> job, message |-> message]

NotStarted == Agent("off", FALSE, Undefined, Undefined)

\* the model's bound on the number of calls of one behaviour
Called == calls < MaxCalls /\ calls' = calls + 1

Init ==
  /\ jobs = <<>>
  /\ runs = <<>>
  /\ now = 0
  /\ jobSeq = 0
  /\ runSeq = 0
  /\ calls = 0
  /\ last = NoCall
  /\ pend = [h \in Handlers |-> Idle]
  /\ returned = {}
  /\ acked = {}
  /\ entries = <<>>
  /\ tokSeq = 0
  /\ issued = [w \in Workers |-> Undefined]
  /\ revoked = {}
  /\ workers = <<>>
  /\ agent = [w \in Workers |-> NotStarted]
  /\ faults = 0
  /\ handled = {}
  /\ reports = {}
  /\ env = Undefined

Tick ==
  /\ now < MaxTime
  /\ now' = now + 1
  /\ UNCHANGED <<storeFiles, calls, last, concVars, regVars, agentVars>>
  /\ UNCHANGED <<env, reports>>

\* POST /api/jobs
CreateJob(team, submittedBy, config) ==
  /\ Called
  /\ jobSeq < MaxJobs
  /\ LET out == createJob(jobs, jobSeq + 1, now,
                          [team |-> team, submittedBy |-> submittedBy, config |-> config])
     IN /\ jobs' = out.jobs
        /\ last' = Call("create", Undefined, Undefined, Undefined, Undefined, out.result)
  /\ jobSeq' = jobSeq + 1
  /\ UNCHANGED <<runs, now, runSeq>>
  /\ UNCHANGED <<concVars, regVars, agentVars>>
  /\ UNCHANGED <<env, reports>>

\* the claim route's answer: 204 without a body when the store returned no
\* job, 200 with the job otherwise
ClaimResponse(result) == IF result = Undefined THEN 204 ELSE 200

\* POST /api/jobs/claim
ClaimNext(workerId) ==
  /\ Called
  /\ LET out == claimNextQueuedJob(jobs, workerId, now)
     IN /\ jobs' = out.jobs
        /\ last' = Call("claim", Some(workerId), Undefined, Undefined, Undefined, out.result)
  /\ UNCHANGED <<runs, now, jobSeq, runSeq>>
  /\ UNCHANGED <<concVars, regVars, agentVars>>
  /\ UNCHANGED <<env, reports>>

\* POST /api/jobs/:id/events
AppendEvent(jobId, ev) ==
  /\ Called
  /\ LET event == [at |-> now, level |-> ev.level, message |-> ev.message]
         out == appendJobEvent(jobs, jobId, event)
     IN /\ jobs' = out.jobs
        /\ last' = Call("append", Undefined, Some(jobId), Some(event), Undefined, out.result)
  /\ UNCHANGED <<runs, now, jobSeq, runSeq>>
  /\ UNCHANGED <<concVars, regVars, agentVars>>
  /\ UNCHANGED <<env, reports>>

\* POST /api/jobs/:id/complete with {status: 'failed', errorMessage}
CompleteFailed(jobId, errorMessage) ==
  /\ Called
  /\ LET out == completeJob(jobs, [jobId |-> jobId, status |-> "failed",
                                   errorMessage |-> Some(errorMessage),
                                   reportId |-> Undefined], now)
     IN /\ jobs' = out.jobs
        /\ last' = Call("complete", Undefined, Some(jobId), Undefined, Some("failed"), out.result)
  /\ UNCHANGED <<runs, now, jobSeq, runSeq>>
  /\ UNCHANGED <<concVars, regVars, agentVars>>
  /\ UNCHANGED <<env, reports>>

\* POST /api/jobs/:id/complete with {status: 'completed', report, ...}:
\* addRun stores the report first, then completeJob gets the run's id
CompleteCompleted(jobId) ==
  /\ Called
  /\ LET runId == runSeq + 1
         out == completeJob(jobs, [jobId |-> jobId, status |-> "completed",
                                   errorMessage |-> Undefined,
                                   reportId |-> Some(runId)], now)
     IN /\ runs' = Append(runs, runId)
        /\ runSeq' = runId
        /\ jobs' = out.jobs
        /\ last' = Call("complete", Undefined, Some(jobId), Undefined, Some("completed"), out.result)
  /\ UNCHANGED <<now, jobSeq>>
  /\ UNCHANGED <<concVars, regVars, agentVars>>
  /\ UNCHANGED <<env, reports>>

Next ==
  \/ Tick
  \/ \E team \in Teams, by \in Submitters, cfg \in Configs : CreateJob(team, by, cfg)
  \/ \E w \in Workers : ClaimNext(w)
  \/ \E j \in JobIds, ev \in EventInputs : AppendEvent(j, ev)
  \/ \E j \in JobIds, m \in ErrorMessages : CompleteFailed(j, m)
  \/ \E j \in JobIds : CompleteCompleted(j)

Spec == Init /\ [][Next]_vars

\* types.ts
JobStatus == {"queued", "running", "completed", "failed", "cancelled"}

\* ------------------------------------------------------------ calls that overlap
\* Each store function awaits readFile, computes without yielding, and awaits
\* writeFile: the read and the write of one call are two steps, and steps of
\* other handlers may come between them.
Held(h, stage) == pend[h].stage = stage

\* the model's bound on the number of calls of one behaviour with overlaps
Accepted == calls < MaxOverlap /\ calls' = calls + 1

\* the store after n createJob calls, one after the other, at time 0
RECURSIVE Preloaded(_)
Preloaded(n) ==
  IF n = 0 THEN <<>>
  ELSE createJob(Preloaded(n - 1), n, 0,
                 [team |-> TheOne(Teams), submittedBy |-> TheOne(Submitters),
                  config |-> TheOne(Configs)]).jobs

InitConc ==
  /\ \E n \in 0..MaxJobs : jobs = Preloaded(n) /\ jobSeq = n
  /\ runs = <<>>
  /\ now = 0
  /\ runSeq = 0
  /\ calls = 0
  /\ last = NoCall
  /\ pend = [h \in Handlers |-> Idle]
  /\ returned = {}
  /\ acked = {}
  /\ entries = <<>>
  /\ tokSeq = 0
  /\ issued = [w \in Workers |-> Undefined]
  /\ revoked = {}
  /\ workers = <<>>
  /\ agent = [w \in Workers |-> NotStarted]
  /\ faults = 0
  /\ handled = {}
  /\ reports = {}
  /\ env = Undefined

Hold(h, handler) == pend' = [pend EXCEPT ![h] = handler]

\* createJob up to its writeJobs
BeginCreate(h, team, submittedBy, config) ==
  /\ Held(h, "idle")
  /\ Accepted
  /\ jobSeq < MaxJobs
  /\ LET out == createJob(jobs, jobSeq + 1, now,
                          [team |-> team, submittedBy |-> submittedBy, config |-> config])
     IN Hold(h, Handler("write",
                Call("create", Undefined, Undefined, Undefined, Undefined, out.result),
                Undefined, out.wrote, out.jobs))
  /\ jobSeq' = jobSeq + 1
  /\ UNCHANGED <<jobs, runs, now, runSeq, last, returned, acked>>
  /\ UNCHANGED <<regVars, agentVars>>
  /\ UNCHANGED <<env, reports>>

\* claimNextQueuedJob up to its writeJobs (or its early return)
BeginClaim(h, workerId) ==
  /\ Held(h, "idle")
  /\ Accepted
  /\ LET out == claimNextQueuedJob(jobs, workerId, now)
     IN Hold(h, Handler("write",
                Call("claim", Some(workerId), Undefined, Undefined, Undefined, out.result),
                Undefined, out.wrote, out.jobs))
  /\ UNCHANGED <<jobs, runs, now, jobSeq, runSeq, last, returned, acked>>
  /\ UNCHANGED <<regVars, agentVars>>
  /\ UNCHANGED <<env, reports>>

\* the events route builds the event, timestamp included, before the store is read
RouteAppend(h, jobId, ev) ==
  /\ Held(h, "idle")
  /\ Accepted
  /\ Hold(h, Handler("route",
             Call("append", Undefined, Some(jobId),
                  Some([at |-> now, level |-> ev.level, message |-> ev.message]),
                  Undefined, Undefined),
             Some(now), FALSE, <<>>))
  /\ UNCHANGED <<jobs, runs, now, jobSeq, runSeq, last, returned, acked>>
  /\ UNCHANGED <<regVars, agentVars>>
  /\ UNCHANGED <<env, reports>>

\* appendJobEvent up to its writeJobs (or its early return)
ReadAppend(h) ==
  /\ Held(h, "route")
  /\ LET c == pend[h].call
         out == appendJobEvent(jobs, TheOne(c.jobId), TheOne(c.event))
     IN Hold(h, Handler("write", [c EXCEPT !.result = out.result],
                pend[h].at, out.wrote, out.jobs))
  /\ UNCHANGED <<jobs, runs, now, jobSeq, runSeq, calls, last, returned, acked>>
  /\ UNCHANGED <<regVars, agentVars>>
  /\ UNCHANGED <<env, reports>>

\* the complete route, failed report: completeJob up to its writeJobs
BeginCompleteFailed(h, jobId, errorMessage) ==
  /\ Held(h, "idle")
  /\ Accepted
  /\ LET out == completeJob(jobs, [jobId |-> jobId, status |-> "failed",
                                   errorMessage |-> Some(errorMessage),
                                   reportId |-> Undefined], now)
     IN Hold(h, Handler("write",
                Call("complete", Undefined, Some(jobId), Undefined, Some("failed"), out.result),
                Undefined, out.wrote, out.jobs))
  /\ UNCHANGED <<jobs, runs, now, jobSeq, runSeq, last, returned, acked>>
  /\ UNCHANGED <<regVars, agentVars>>
  /\ UNCHANGED <<env, reports>>

\* the complete route, completed report: addRun has read runs.json and built
\* the run; `list` holds the runs it is about to write
BeginCompleteCompleted(h, jobId) ==
  /\ Held(h, "idle")
  /\ Accepted
  /\ Hold(h, Handler("runs",
             Call("complete", Undefined, Some(jobId), Undefined, Some("completed"), Undefined),
             Some(runSeq + 1), TRUE, Append(runs, runSeq + 1)))
  /\ runSeq' = runSeq + 1
  /\ UNCHANGED <<jobs, runs, now, jobSeq, last, returned, acked>>
  /\ UNCHANGED <<regVars, agentVars>>
  /\ UNCHANGED <<env, reports>>

\* addRun's writeFile
WriteRun(h) ==
  /\ Held(h, "runs")
  /\ runs' = pend[h].list
  /\ Hold(h, [pend[h] EXCEPT !.stage = "stored", !.list = <<>>, !.wrote = FALSE])
  /\ UNCHANGED <<jobs, now, jobSeq, runSeq, calls, last, returned, acked>>
  /\ UNCHANGED <<regVars, agentVars>>
  /\ UNCHANGED <<env, reports>>

\* completeJob with the stored run's id, up to its writeJobs
ReadComplete(h) ==
  /\ Held(h, "stored")
  /\ LET c == pend[h].call
         out == completeJob(jobs, [jobId |-> TheOne(c.jobId), status |-> "completed",
                                   errorMessage |-> Undefined,
                                   reportId |-> pend[h].at], now)
     IN Hold(h, Handler("write", [c EXCEPT !.result = out.result],
                pend[h].at, out.wrote, out.jobs))
  /\ UNCHANGED <<jobs, runs, now, jobSeq, runSeq, calls, last, returned, acked>>
  /\ UNCHANGED <<regVars, agentVars>>
  /\ UNCHANGED <<env, reports>>

\* writeJobs, when the function got that far, and the return to the caller
Finish(h) ==
  /\ Held(h, "write")
  /\ jobs' = IF pend[h].wrote THEN pend[h].list ELSE jobs
  /\ last' = pend[h].call
  /\ returned' = IF pend[h].call.op = "claim"
                 THEN returned \cup {[workerId |-> TheOne(pend[h].call.workerId),
                                      jobId |-> r.id] : r \in pend[h].call.result}
                 ELSE returned
  /\ acked' = IF pend[h].call.op = "append"
              THEN acked \cup {[jobId |-> r.id, event |-> TheOne(pend[h].call.event)] :
                                 r \in pend[h].call.result}
              ELSE acked
  /\ Hold(h, Idle)
  /\ UNCHANGED <<runs, now, jobSeq, runSeq, calls>>
  /\ UNCHANGED <<regVars, agentVars>>
  /\ UNCHANGED <<env, reports>>

\* overlapping calls on the jobs that exist: claimNext, appendEvent, complete
NextMutate ==
  \/ Tick
  \/ \E h \in Handlers, w \in Workers : BeginClaim(h, w)
  \/ \E h \in Handlers, j \in JobIds, ev \in EventInputs : RouteAppend(h, j, ev)
  \/ \E h \in Handlers : ReadAppend(h)
  \/ \E h \in Handlers, j \in JobIds, m \in ErrorMessages : BeginCompleteFailed(h, j, m)
  \/ \E h \in Handlers, j \in JobIds : BeginCompleteCompleted(h, j)
  \/ \E h \in Handlers : WriteRun(h)
  \/ \E h \in Handlers : ReadComplete(h)
  \/ \E h \in Handlers : Finish(h)

SpecMutate == InitConc /\ [][NextMutate]_vars

NextConc ==
  \/ \E h \in Handlers, team \in Teams, by \in Submitters, cfg \in Configs :
        BeginCreate(h, team, by, cfg)
  \/ NextMutate

SpecConc == InitConc /\ [][NextConc]_vars

\* ------------------------------------------------------- workerRegistryStore
\* createHash('sha256').update(input).digest('hex'): a digest determined by
\* its input, two inputs never sharing one
sha256(input) == <<"sha256", input>>

\* what a registry function hands back: whether it wrote, the list it wrote
\* (or read), and its return value (none when it throws 'Worker not found')
RegOutcome(wrote, es, res) == [wrote |-> wrote, list |-> es, result |-> res]

\* the entry pushed without filtering out the worker's previous entry
registerWorkerToken_NoFilter(es, workerId, token, t) ==
  RegOutcome(TRUE,
             Append(es, [workerId |-> workerId, tokenHash |-> sha256(token),
                         createdAt |-> t, revokedAt |-> Undefined]),
             Some([workerId |-> workerId, token |-> token]))

\* only the worker's active entry filtered out, a revoked one left in the file
registerWorkerToken_KeepRevoked(es, workerId, token, t) ==
  LET updated == SelectSeq(es, LAMBDA entry :
                              entry.workerId # workerId \/ entry.revokedAt # Undefined)
  IN RegOutcome(TRUE,
                Append(updated, [workerId |-> workerId, tokenHash |-> sha256(token),
                                 createdAt |-> t, revokedAt |-> Undefined]),
                Some([workerId |-> workerId, token |-> token]))

registerWorkerToken(es, workerId, token, t) ==
  LET updated == SelectSeq(es, LAMBDA entry : entry.workerId # workerId)
  IN RegOutcome(TRUE,
                Append(updated, [workerId |-> workerId, tokenHash |-> sha256(token),
                                 createdAt |-> t, revokedAt |-> Undefined]),
                Some([workerId |-> workerId, token |-> token]))

\* rotate refusing a worker id that has no entry
rotateWorkerToken_KnownOnly(es, workerId, token, t) ==
  IF \E i \in DOMAIN es : es[i].workerId = workerId
  THEN registerWorkerToken(es, workerId, token, t)
  ELSE RegOutcome(FALSE, es, Undefined)

rotateWorkerToken(es, workerId, token, t) == registerWorkerToken(es, workerId, token, t)

\* revoke for an unknown worker id revoking every entry instead of throwing
revokeWorkerToken_Sweep(es, workerId, t) ==
  LET found == \E i \in DOMAIN es : es[i].workerId = workerId
      updated == [i \in DOMAIN es |->
                    IF found /\ es[i].workerId # workerId THEN es[i]
                    ELSE [es[i] EXCEPT !.revokedAt = Some(t)]]
  IN IF ~found THEN RegOutcome(TRUE, updated, Undefined)
     ELSE RegOutcome(TRUE, updated, Some([workerId |-> workerId, revokedAt |-> t]))

revokeWorkerToken(es, workerId, t) ==
  LET found == \E i \in DOMAIN es : es[i].workerId = workerId
      updated == [i \in DOMAIN es |->
                    IF es[i].workerId # workerId THEN es[i]
                    ELSE [es[i] EXCEPT !.revokedAt = Some(t)]]
  IN IF ~found THEN RegOutcome(FALSE, es, Undefined)
     ELSE RegOutcome(TRUE, updated, Some([workerId |-> workerId, revokedAt |-> t]))

verifyWorkerToken(es, workerId, token) ==
  LET I == {i \in DOMAIN es : es[i].workerId = workerId}
  IN IF I = {} THEN FALSE
     ELSE LET entry == es[CHOOSE i \in I : \A k \in I : i <= k]
          IN IF entry.revokedAt # Undefined THEN FALSE
             ELSE sha256(token) = entry.tokenHash

\* ------------------------------------------------- registry calls, one at a time
RegCall(op, workerId, tokens, res) ==
  [op |-> op, workerId |-> workerId, tokens |-> tokens, result |-> res]

\* the tokens whose digests the entries of `workerId` in `es` hold
TokensOf(es, workerId) ==
  {tok \in 1..tokSeq : \E i \in DOMAIN es :
      es[i].workerId = workerId /\ es[i].tokenHash = sha256(tok)}

\* what the caller learns when a registry call returns
Learn(call) ==
  /\ last' = call
  /\ issued' = IF call.op \in {"register", "rotate"}
                 THEN [issued EXCEPT ![call.workerId] = call.tokens]
               ELSE IF call.op = "revoke" /\ call.result # Undefined
                 THEN [issued EXCEPT ![call.workerId] = Undefined]
               ELSE issued
  /\ revoked' = IF call.op = "revoke" /\ call.result # Undefined
                  THEN revoked \cup {[workerId |-> call.workerId, token |-> tok] :
                                       tok \in call.tokens}
                ELSE revoked

\* POST /api/workers/registry
Register(workerId) ==
  /\ Called
  /\ LET out == registerWorkerToken(entries, workerId, tokSeq + 1, now)
     IN /\ entries' = out.list
        /\ Learn(RegCall("register", workerId, {r.token : r \in out.result}, out.result))
  /\ tokSeq' = tokSeq + 1
  /\ UNCHANGED <<storeFiles, now>>
  /\ UNCHANGED <<concVars, agentVars>>
  /\ UNCHANGED <<env, reports>>

\* POST /api/workers/registry/:workerId
Rotate(workerId) ==
  /\ Called
  /\ LET out == rotateWorkerToken(entries, workerId, tokSeq + 1, now)
     IN /\ entries' = out.list
        /\ Learn(RegCall("rotate", workerId, {r.token : r \in out.result}, out.result))
  /\ tokSeq' = tokSeq + 1
  /\ UNCHANGED <<storeFiles, now>>
  /\ UNCHANGED <<concVars, agentVars>>
  /\ UNCHANGED <<env, reports>>

\* DELETE /api/workers/registry/:workerId
Revoke(workerId) ==
  /\ Called
  /\ LET out == revokeWorkerToken(entries, workerId, now)
     IN /\ entries' = out.list
        /\ Learn(RegCall("revoke", workerId, TokensOf(entries, workerId), out.result))
  /\ UNCHANGED <<tokSeq, storeFiles, now>>
  /\ UNCHANGED <<concVars, agentVars>>
  /\ UNCHANGED <<env, reports>>

\* authorizeWorkerRequest: verifyWorkerToken(x-worker-id, x-worker-token)
Verify(workerId, token) ==
  /\ Called
  /\ Learn(RegCall("verify", workerId, Some(token),
                   Some(verifyWorkerToken(entries, workerId, token))))
  /\ UNCHANGED <<entries, tokSeq, storeFiles, now>>
  /\ UNCHANGED <<concVars, agentVars>>
  /\ UNCHANGED <<env, reports>>

NextReg ==
  \/ Tick
  \/ \E w \in Workers : Register(w)
  \/ \E w \in Workers : Rotate(w)
  \/ \E w \in Workers : Revoke(w)
  \/ \E w \in Workers, tok \in 1..(tokSeq + 1) : Verify(w, tok)

SpecReg == Init /\ [][NextReg]_vars

\* --------------------------------------------------- registry calls that overlap
\* readEntries and writeEntries of one call are two steps
BeginRegister(h, op, workerId) ==
  /\ Held(h, "idle")
  /\ Accepted
  /\ LET out == IF op = "rotate"
                THEN rotateWorkerToken(entries, workerId, tokSeq + 1, now)
                ELSE registerWorkerToken(entries, workerId, tokSeq + 1, now)
     IN Hold(h, Handler("write",
                RegCall(op, workerId, {r.token : r \in out.result}, out.result),
                Undefined, out.wrote, out.list))
  /\ tokSeq' = tokSeq + 1
  /\ UNCHANGED <<entries, last, issued, revoked, storeFiles, now>>
  /\ UNCHANGED <<returned, acked, agentVars>>
  /\ UNCHANGED <<env, reports>>

BeginRevoke(h, workerId) ==
  /\ Held(h, "idle")
  /\ Accepted
  /\ LET out == revokeWorkerToken(entries, workerId, now)
     IN Hold(h, Handler("write",
                RegCall("revoke", workerId, TokensOf(entries, workerId), out.result),
                Undefined, out.wrote, out.list))
  /\ UNCHANGED <<entries, tokSeq, last, issued, revoked, storeFiles, now>>
  /\ UNCHANGED <<returned, acked, agentVars>>
  /\ UNCHANGED <<env, reports>>

\* writeEntries, when the function got that far, and the return to the caller
FinishRegistry(h) ==
  /\ Held(h, "write")
  /\ entries' = IF pend[h].wrote THEN pend[h].list ELSE entries
  /\ Learn(pend[h].call)
  /\ Hold(h, Idle)
  /\ UNCHANGED <<tokSeq, calls, storeFiles, now>>
  /\ UNCHANGED <<returned, acked, agentVars>>
  /\ UNCHANGED <<env, reports>>

\* verifyWorkerToken reads and returns: one step
VerifyNow(workerId, token) ==
  /\ Accepted
  /\ Learn(RegCall("verify", workerId, Some(token),
                   Some(verifyWorkerToken(entries, workerId, token))))
  /\ UNCHANGED <<entries, tokSeq, pend, storeFiles, now>>
  /\ UNCHANGED <<returned, acked, agentVars>>
  /\ UNCHANGED <<env, reports>>

NextRegConc ==
  \/ Tick
  \/ \E h \in Handlers, op \in {"register", "rotate"}, w \in Workers :
        BeginRegister(h, op, w)
  \/ \E h \in Handlers, w \in Workers : BeginRevoke(h, w)
  \/ \E h \in Handlers : FinishRegistry(h)
  \/ \E w \in Workers, tok \in 1..(tokSeq + 1) : VerifyNow(w, tok)

SpecRegConc == Init /\ [][NextRegConc]_vars

\* ------------------------------------------------------------- workerStore
upsertWorkerHeartbeat(ws, input, t) ==
  LET known == \E i \in DOMAIN ws : ws[i].workerId = input.workerId
      updatedWorkers == [i \in DOMAIN ws |->
                           IF ws[i].workerId # input.workerId THEN ws[i]
                           ELSE [ws[i] EXCEPT
                                   !.status = input.status,
                                   !.currentJobId = input.currentJobId,
                                   !.host = IF input.host # Undefined THEN input.host ELSE @,
                                   !.version = IF input.version # Undefined
                                               THEN input.version ELSE @,
                                   !.lastSeenAt = t]]
  IN IF known THEN updatedWorkers
     ELSE Append(updatedWorkers,
                 [workerId |-> input.workerId, status |-> input.status,
                  currentJobId |-> input.currentJobId, host |-> input.host,
                  version |-> input.version, lastSeenAt |-> t])

\* ------------------------------------------------------ heartbeats that overlap
HeartbeatInputs ==
  [workerId : Workers, status : {"idle", "busy"}, currentJobId : {Undefined, Some(1)},
   host : {Undefined, Some("host")}, version : {Some("0.1.0")}]

\* the rows of `ws` that belong to `workerId`, in file order
RowsOf(ws, workerId) == SelectSeq(ws, LAMBDA worker : worker.workerId = workerId)

HeartbeatCall(input, res) == [op |-> "heartbeat", input |-> input, result |-> res]

\* upsertWorkerHeartbeat up to its writeWorkers: readWorkers, new Date(), the
\* updated list and the row it will return
BeginHeartbeat(h, input) ==
  /\ Held(h, "idle")
  /\ Accepted
  /\ LET updatedWorkers == upsertWorkerHeartbeat(workers, input, now)
         upserted == RowsOf(updatedWorkers, input.workerId)[1]
     IN Hold(h, Handler("write", HeartbeatCall(input, Some(upserted)),
                Some(now), TRUE, updatedWorkers))
  /\ UNCHANGED <<storeFiles, now, last, returned, acked, regVars,
                 workers, agent, faults, handled>>
  /\ UNCHANGED <<env, reports>>

\* writeWorkers and the return to the caller
FinishHeartbeat(h) ==
  /\ Held(h, "write")
  /\ workers' = pend[h].list
  /\ last' = pend[h].call
  /\ Hold(h, Idle)
  /\ UNCHANGED <<storeFiles, now, calls, returned, acked, regVars,
                 agent, faults, handled>>
  /\ UNCHANGED <<env, reports>>

NextBeat ==
  \/ Tick
  \/ \E h \in Handlers, input \in HeartbeatInputs : BeginHeartbeat(h, input)
  \/ \E h \in Handlers : FinishHeartbeat(h)

SpecBeat == Init /\ [][NextBeat]_vars

\* ---------------------------------------------------------------- run-worker
\* The worker agent calls the control plane with fetch.  A call either is
\* served ("ok"), is answered with a non-OK status without being served
\* ("refused": 401, 400, 5xx), fails before it reaches the control plane
\* ("throw": fetch rejects), or is served and its response lost ("lost":
\* fetch rejects).  The control plane serves one request at a time here.
Replies == {"ok", "refused", "throw", "lost"}

MaxFaults == 1

\* the workers that run the agent process
Agents == {"w1"}

\* the fault budget of one behaviour
Reply(o) ==
  /\ o \in Replies
  /\ IF o = "ok" THEN UNCHANGED faults
     ELSE faults < MaxFaults /\ faults' = faults + 1

Served(o) == o \in {"ok", "lost"}
Rejects(o) == o \in {"throw", "lost"}

At(w, pc) == agent[w].pc = pc

Goto(w, pc) == agent' = [agent EXCEPT ![w].pc = pc]

\* sendHeartbeat: POST /api/workers; the response is not looked at
Heartbeat(w, o, status, currentJobId) ==
  workers' = IF Served(o)
             THEN upsertWorkerHeartbeat(workers,
                    [workerId |-> w, status |-> status, currentJobId |-> currentJobId,
                     host |-> Some("host"), version |-> Some("0.1.0")], now)
             ELSE workers

\* postJobEvent: POST /api/jobs/:id/events; the response is not looked at
PostJobEvent(w, o, level, message) ==
  jobs' = IF Served(o)
          THEN appendJobEvent(jobs, TheOne(agent[w].job),
                              [at |-> now, level |-> level, message |-> message]).jobs
          ELSE jobs

\* a terminal report (POST /api/jobs/:id/complete) sent by a worker agent;
\* `ok` says whether the agent got an OK response to it
Report(workerId, jobId, status, ok) ==
  [workerId |-> workerId, jobId |-> jobId, status |-> status, ok |-> ok]

\* an error thrown outside the try block, or inside the catch block, rejects
\* the action's promise: parseAsync(...).catch logs it and the process ends
Crash(w) ==
  /\ agent' = [agent EXCEPT ![w].pc = "crashed"]
  /\ handled' = handled \cup agent[w].job

\* an error thrown inside the try block is caught with its message
Catch(w, message) ==
  agent' = [agent EXCEPT ![w].pc = "catch", ![w].message = Some(message)]

\* the process is started, with or without --once, and sends its first heartbeat
AgentStart(w, once, o) ==
  /\ At(w, "off")
  /\ Reply(o)
  /\ Heartbeat(w, o, "idle", Undefined)
  /\ agent' = [agent EXCEPT ![w] = Agent(IF Rejects(o) THEN "crashed" ELSE "claim",
                                         once, Undefined, Undefined)]
  /\ UNCHANGED <<storeFiles, now, calls, last, concVars, regVars, handled>>
  /\ UNCHANGED <<env, reports>>

\* claimNextJob: 204 is no job, any other non-OK status throws
AgentClaim(w, o) ==
  /\ At(w, "claim")
  /\ Reply(o)
  /\ LET out == claimNextQueuedJob(jobs, w, now)
     IN /\ jobs' = IF Served(o) THEN out.jobs ELSE jobs
        /\ agent' = [agent EXCEPT
                       ![w].pc = IF o # "ok" THEN "crashed"
                                 ELSE IF out.result = Undefined THEN "nojob" ELSE "busy",
                       ![w].job = IF o = "ok" THEN {r.id : r \in out.result} ELSE Undefined]
  /\ UNCHANGED <<runs, jobSeq, runSeq, now, calls, last, concVars, regVars,
                 workers, handled>>
  /\ UNCHANGED <<env, reports>>

\* no job: heartbeat idle, then return (--once) or sleep
AgentNoJob(w, o) ==
  /\ At(w, "nojob")
  /\ Reply(o)
  /\ Heartbeat(w, o, "idle", Undefined)
  /\ Goto(w, IF Rejects(o) THEN "crashed" ELSE IF agent[w].once THEN "exited" ELSE "sleep")
  /\ UNCHANGED <<storeFiles, now, calls, last, concVars, regVars, handled>>
  /\ UNCHANGED <<env, reports>>

\* sleep(pollIntervalMs); continue
AgentSleep(w) ==
  /\ At(w, "sleep")
  /\ Goto(w, "claim")
  /\ UNCHANGED <<storeFiles, now, calls, last, concVars, regVars, workers, faults, handled>>
  /\ UNCHANGED <<env, reports>>

\* try: heartbeat busy with the job's id
AgentBusy(w, o) ==
  /\ At(w, "busy")
  /\ Reply(o)
  /\ Heartbeat(w, o, "busy", agent[w].job)
  /\ IF Rejects(o) THEN Catch(w, "fetch failed") ELSE Goto(w, "started")
  /\ UNCHANGED <<storeFiles, now, calls, last, concVars, regVars, handled>>
  /\ UNCHANGED <<env, reports>>

\* try: the 'started run' event
AgentStarted(w, o) ==
  /\ At(w, "started")
  /\ Reply(o)
  /\ PostJobEvent(w, o, "info", "Worker " \o w \o " started run")
  /\ IF Rejects(o) THEN Catch(w, "fetch failed") ELSE Goto(w, "run")
  /\ UNCHANGED <<runs, jobSeq, runSeq, now, calls, last, concVars, regVars,
                 workers, handled>>
  /\ UNCHANGED <<env, reports>>

\* try: resolveCasesPath and runSuite give a report or throw
AgentRunSuite(w, ok) ==
  /\ At(w, "run")
  /\ IF ok THEN Goto(w, "finished") ELSE \E m \in ErrorMessages : Catch(w, m)
  /\ UNCHANGED <<storeFiles, now, calls, last, concVars, regVars, workers, faults, handled>>
  /\ UNCHANGED <<env, reports>>

\* try: the 'Finished run' event
AgentFinished(w, o) ==
  /\ At(w, "finished")
  /\ Reply(o)
  /\ PostJobEvent(w, o, "info", "Finished run with score")
  /\ IF Rejects(o) THEN Catch(w, "fetch failed") ELSE Goto(w, "complete")
  /\ UNCHANGED <<runs, jobSeq, runSeq, now, calls, last, concVars, regVars,
                 workers, handled>>
  /\ UNCHANGED <<env, reports>>

\* try: markCompleted; the route stores the run and completes the job; a
\* non-OK response (404 for an unknown job included) throws
AgentMarkCompleted(w, o) ==
  /\ At(w, "complete")
  /\ Reply(o)
  /\ LET out == completeJob(jobs, [jobId |-> TheOne(agent[w].job), status |-> "completed",
                                   errorMessage |-> Undefined,
                                   reportId |-> Some(runSeq + 1)], now)
     IN /\ jobs' = IF Served(o) THEN out.jobs ELSE jobs
        /\ runs' = IF Served(o) THEN Append(runs, runSeq + 1) ELSE runs
        /\ runSeq' = IF Served(o) THEN runSeq + 1 ELSE runSeq
        /\ IF Rejects(o) THEN Catch(w, "fetch failed")
           ELSE IF o = "refused" \/ out.result = Undefined
                THEN Catch(w, "Failed to complete job")
           ELSE Goto(w, "idle")
        /\ reports' = reports \cup
              {Report(w, TheOne(agent[w].job), "completed",
                      o = "ok" /\ out.result # Undefined)}
  /\ UNCHANGED <<jobSeq, now, calls, last, concVars, regVars, workers, handled>>
  /\ UNCHANGED env

\* try: heartbeat idle after the completion report
AgentIdle(w, o) ==
  /\ At(w, "idle")
  /\ Reply(o)
  /\ Heartbeat(w, o, "idle", Undefined)
  /\ IF Rejects(o) THEN Catch(w, "fetch failed") ELSE Goto(w, "end")
  /\ UNCHANGED <<storeFiles, now, calls, last, concVars, regVars, handled>>
  /\ UNCHANGED <<env, reports>>

\* catch: the error event
AgentCatchEvent(w, o) ==
  /\ At(w, "catch")
  /\ Reply(o)
  /\ PostJobEvent(w, o, "error", TheOne(agent[w].message))
  /\ IF Rejects(o) THEN Crash(w) ELSE Goto(w, "fail") /\ UNCHANGED handled
  /\ UNCHANGED <<runs, jobSeq, runSeq, now, calls, last, concVars, regVars, workers>>
  /\ UNCHANGED <<env, reports>>

\* catch: markFailed; the response is not looked at
AgentMarkFailed(w, o) ==
  /\ At(w, "fail")
  /\ Reply(o)
  /\ jobs' = IF Served(o)
             THEN completeJob(jobs, [jobId |-> TheOne(agent[w].job), status |-> "failed",
                                     errorMessage |-> agent[w].message,
                                     reportId |-> Undefined], now).jobs
             ELSE jobs
  /\ IF Rejects(o) THEN Crash(w) ELSE Goto(w, "failidle") /\ UNCHANGED handled
  /\ reports' = reports \cup
        {Report(w, TheOne(agent[w].job), "failed",
                o = "ok" /\ FindJob(jobs, TheOne(agent[w].job)) # Undefined)}
  /\ UNCHANGED <<runs, jobSeq, runSeq, now, calls, last, concVars, regVars, workers>>
  /\ UNCHANGED env

\* catch: heartbeat idle
AgentCatchIdle(w, o) ==
  /\ At(w, "failidle")
  /\ Reply(o)
  /\ Heartbeat(w, o, "idle", Undefined)
  /\ IF Rejects(o) THEN Crash(w) ELSE Goto(w, "end") /\ UNCHANGED handled
  /\ UNCHANGED <<storeFiles, now, calls, last, concVars, regVars>>
  /\ UNCHANGED <<env, reports>>

\* after try/catch: return (--once) or go round the loop
AgentLoop(w) ==
  /\ At(w, "end")
  /\ agent' = [agent EXCEPT ![w].pc = IF agent[w].once THEN "exited" ELSE "claim",
                            ![w].job = Undefined, ![w].message = Undefined]
  /\ handled' = handled \cup agent[w].job
  /\ UNCHANGED <<storeFiles, now, calls, last, concVars, regVars, workers, faults>>
  /\ UNCHANGED <<env, reports>>

\* a submitter creates a job while the agents poll
Submit(team, submittedBy, config) ==
  /\ jobSeq < MaxJobs
  /\ jobs' = createJob(jobs, jobSeq + 1, now,
                       [team |-> team, submittedBy |-> submittedBy, config |-> config]).jobs
  /\ jobSeq' = jobSeq + 1
  /\ UNCHANGED <<runs, runSeq, now, calls, last, concVars, regVars, agentVars>>
  /\ UNCHANGED <<env, reports>>

NextAgent ==
  \/ Tick
  \/ \E team \in Teams, by \in Submitters, cfg \in Configs : Submit(team, by, cfg)
  \/ \E w \in Agents, once \in BOOLEAN, o \in Replies : AgentStart(w, once, o)
  \/ \E w \in Agents, o \in Replies : AgentClaim(w, o)
  \/ \E w \in Agents, o \in Replies : AgentNoJob(w, o)
  \/ \E w \in Agents : AgentSleep(w)
  \/ \E w \in Agents, o \in Replies : AgentBusy(w, o)
  \/ \E w \in Agents, o \in Replies : AgentStarted(w, o)
  \/ \E w \in Agents, ok \in BOOLEAN : AgentRunSuite(w, ok)
  \/ \E w \in Agents, o \in Replies : AgentFinished(w, o)
  \/ \E w \in Agents, o \in Replies : AgentMarkCompleted(w, o)
  \/ \E w \in Agents, o \in Replies : AgentIdle(w, o)
  \/ \E w \in Agents, o \in Replies : AgentCatchEvent(w, o)
  \/ \E w \in Agents, o \in Replies : AgentMarkFailed(w, o)
  \/ \E w \in Agents, o \in Replies : AgentCatchIdle(w, o)
  \/ \E w \in Agents : AgentLoop(w)

SpecAgent == Init /\ [][NextAgent]_vars

\* one step of the run-worker process of `w` in loop mode when every request
\* to the control plane is answered OK
LoopStep(w) ==
  \/ AgentStart(w, FALSE, "ok")
  \/ AgentClaim(w, "ok")
  \/ AgentNoJob(w, "ok")
  \/ AgentSleep(w)
  \/ AgentBusy(w, "ok")
  \/ AgentStarted(w, "ok")
  \/ \E ok \in BOOLEAN : AgentRunSuite(w, ok)
  \/ AgentFinished(w, "ok")
  \/ AgentMarkCompleted(w, "ok")
  \/ AgentIdle(w, "ok")
  \/ AgentCatchEvent(w, "ok")
  \/ AgentMarkFailed(w, "ok")
  \/ AgentCatchIdle(w, "ok")
  \/ AgentLoop(w)

NextLoop ==
  \/ Tick
  \/ \E team \in Teams, by \in Submitters, cfg \in Configs : Submit(team, by, cfg)
  \/ \E w \in Agents : AgentStart(w, FALSE, "ok")
  \/ \E w \in Agents : AgentClaim(w, "ok")
  \/ \E w \in Agents : AgentNoJob(w, "ok")
  \/ \E w \in Agents : AgentSleep(w)
  \/ \E w \in Agents : AgentBusy(w, "ok")
  \/ \E w \in Agents : AgentStarted(w, "ok")
  \/ \E w \in Agents, ok \in BOOLEAN : AgentRunSuite(w, ok)
  \/ \E w \in Agents : AgentFinished(w, "ok")
  \/ \E w \in Agents : AgentMarkCompleted(w, "ok")
  \/ \E w \in Agents : AgentIdle(w, "ok")
  \/ \E w \in Agents : AgentCatchEvent(w, "ok")
  \/ \E w \in Agents : AgentMarkFailed(w, "ok")
  \/ \E w \in Agents : AgentCatchIdle(w, "ok")
  \/ \E w \in Agents : AgentLoop(w)

\* the worker process keeps running: each await returns (requests are
\* answered, runSuite returns or throws, sleep ends), so the process is never
\* stopped for ever at a step it can take
SpecLoop == Init /\ [][NextLoop]_vars /\ \A w \in Agents : WF_vars(LoopStep(w))

\* -------------------------------------------------------------------- HTTP
\* The routes, with their authorization.  A request carries an Authorization
\* header (here the bearer token itself, or none) and the x-worker-id and
\* x-worker-token headers (or none).  Bodies are well-formed.
MaxRequests == 3

AdminSecret == "secret"

BearerTokens == {AdminSecret, "guess"}

Requests ==
  {[authorization |-> a, workerId |-> Undefined, workerToken |-> Undefined] :
      a \in {Undefined} \cup {Some(b) : b \in BearerTokens}}
  \cup
  {[authorization |-> Undefined, workerId |-> Some(w), workerToken |-> Some(tok)] :
      w \in Workers, tok \in 1..tokSeq}

\* apiAuth.ts
checkAuthHeader(expected, authHeader) ==
  IF expected = Undefined THEN TRUE
  ELSE IF authHeader = Undefined THEN FALSE
  ELSE authHeader = expected

\* the admin check failing open, as checkAuthHeader does, when no secret is set
checkAdminAuthHeader_Open(expected, authHeader) ==
  IF expected = Undefined THEN TRUE
  ELSE IF authHeader = Undefined THEN FALSE
  ELSE authHeader = expected

checkAdminAuthHeader(expected, authHeader) ==
  IF expected = Undefined THEN FALSE
  ELSE IF authHeader = Undefined THEN FALSE
  ELSE authHeader = expected

WorkerAuthResult(ok, mode, workerId) == [ok |-> ok, mode |-> mode, workerId |-> workerId]

authorizeWorkerRequest(expected, es, request) ==
  IF checkAdminAuthHeader(expected, request.authorization)
  THEN WorkerAuthResult(TRUE, Some("admin"), Undefined)
  ELSE IF request.workerId = Undefined \/ request.workerToken = Undefined
  THEN WorkerAuthResult(FALSE, Undefined, Undefined)
  ELSE IF ~verifyWorkerToken(es, TheOne(request.workerId), TheOne(request.workerToken))
  THEN WorkerAuthResult(FALSE, Undefined, Undefined)
  ELSE WorkerAuthResult(TRUE, Some("worker-token"), request.workerId)

\* a request served: the route, the request's headers, the worker id and job
\* id it names, its JSON body, the response status and the job or record in
\* the response
HttpCall(op, request, workerId, jobId, payload, status, res) ==
  [op |-> op, request |-> request, workerId |-> workerId, jobId |-> jobId,
   payload |-> payload, status |-> status, result |-> res]

\* jobValidation.ts and workerValidation.ts: what safeParse accepts
\* (z.string().min(1) rejects the empty string)
createJobSchema(payload) ==
  payload.team # "" /\ payload.submittedBy # "" /\ payload.config \in Configs

claimJobSchema(payload) == payload.workerId # ""

appendJobEventSchema(payload) ==
  payload.level \in {"info", "warning", "error"} /\ payload.message # ""

completeJobSchema_AnyTeam(payload) ==
  CASE payload.status = "completed" -> payload.report /\ payload.submittedBy # ""
    [] payload.status = "failed" -> payload.errorMessage # ""
    [] OTHER -> FALSE

completeJobSchema(payload) ==
  CASE payload.status = "completed" ->
         payload.report /\ payload.team # "" /\ payload.submittedBy # ""
    [] payload.status = "failed" -> payload.errorMessage # ""
    [] OTHER -> FALSE

workerHeartbeatSchema(payload) ==
  /\ payload.workerId # ""
  /\ payload.status \in {"idle", "busy"}
  /\ "" \notin payload.currentJobId \cup payload.host \cup payload.version

\* safeParse failed: 400 'Invalid payload'
InvalidPayload(op, request, workerId, jobId, payload) ==
  /\ last' = HttpCall(op, request, workerId, jobId, payload, 400, Undefined)
  /\ UNCHANGED <<storeFiles, regVars, workers>>

Served1 == calls < MaxRequests /\ calls' = calls + 1

\* the registry after `n` workers have been registered through the registry
\* endpoint, one after the other, at time 0
RECURSIVE Registered(_)
Registered(n) ==
  IF n = 0 THEN <<>>
  ELSE registerWorkerToken(Registered(n - 1), IF n = 1 THEN "w1" ELSE "w2", n, 0).list

\* a control plane with or without INGEST_API_KEY; with it, workers may have
\* been registered already (the registry endpoint needs the key)
InitHttp ==
  /\ env \in {Undefined, Some(AdminSecret)}
  /\ \E n \in 0..MaxJobs : jobs = Preloaded(n) /\ jobSeq = n
  /\ \E n \in {0, 2} :
        /\ n > 0 => env # Undefined
        /\ entries = Registered(n)
        /\ tokSeq = n
        /\ issued = [w \in Workers |-> IF n = 0 THEN Undefined
                                       ELSE IF w = "w1" THEN Some(1) ELSE Some(2)]
  /\ runs = <<>>
  /\ now = 0
  /\ runSeq = 0
  /\ calls = 0
  /\ last = NoCall
  /\ pend = [h \in Handlers |-> Idle]
  /\ returned = {}
  /\ acked = {}
  /\ revoked = {}
  /\ workers = <<>>
  /\ agent = [w \in Workers |-> NotStarted]
  /\ faults = 0
  /\ handled = {}
  /\ reports = {}

\* what no route changes
httpFrame == <<now, pend, returned, acked, agent, faults, handled, env, reports>>

Unauthorized_TellsWorker(op, request, workerId, jobId, payload) ==
  /\ last' = HttpCall(op, request, workerId, jobId, payload,
                      IF request.workerToken # Undefined THEN 403 ELSE 401, Undefined)
  /\ UNCHANGED <<storeFiles, regVars, workers>>

Unauthorized(op, request, workerId, jobId, payload) ==
  /\ last' = HttpCall(op, request, workerId, jobId, payload, 401, Undefined)
  /\ UNCHANGED <<storeFiles, regVars, workers>>

\* POST /api/jobs
HttpCreate(request, team, submittedBy, config) ==
  /\ Served1
  /\ jobSeq < MaxJobs
  /\ IF ~checkAuthHeader(env, request.authorization)
     THEN Unauthorized("http:create", request, Undefined, Undefined,
                       [team |-> team, submittedBy |-> submittedBy, config |-> config])
     ELSE IF ~createJobSchema([team |-> team, submittedBy |-> submittedBy,
                               config |-> config])
     THEN InvalidPayload("http:create", request, Undefined, Undefined,
                         [team |-> team, submittedBy |-> submittedBy, config |-> config])
     ELSE LET out == createJob(jobs, jobSeq + 1, now,
                        [team |-> team, submittedBy |-> submittedBy, config |-> config])
          IN /\ jobs' = out.jobs
             /\ jobSeq' = jobSeq + 1
             /\ last' = HttpCall("http:create", request, Undefined, Undefined,
                                 [team |-> team, submittedBy |-> submittedBy,
                                  config |-> config], 201, out.result)
             /\ UNCHANGED <<runs, runSeq, regVars, workers>>
  /\ UNCHANGED httpFrame

\* POST /api/jobs/claim with {workerId}
HttpClaim(request, workerId) ==
  /\ Served1
  /\ IF ~checkAuthHeader(env, request.authorization)
     THEN Unauthorized("http:claim", request, Some(workerId), Undefined,
                       [workerId |-> workerId])
     ELSE IF ~claimJobSchema([workerId |-> workerId])
     THEN InvalidPayload("http:claim", request, Some(workerId), Undefined,
                         [workerId |-> workerId])
     ELSE LET out == claimNextQueuedJob(jobs, workerId, now)
          IN /\ jobs' = out.jobs
             /\ last' = HttpCall("http:claim", request, Some(workerId), Undefined,
                                 [workerId |-> workerId],
                                 ClaimResponse(out.result), out.result)
             /\ UNCHANGED <<runs, jobSeq, runSeq, regVars, workers>>
  /\ UNCHANGED httpFrame

\* POST /api/jobs/:id/events with {level, message}
HttpAppend(request, jobId, ev) ==
  /\ Served1
  /\ IF ~authorizeWorkerRequest(env, entries, request).ok
     THEN Unauthorized("http:append", request, Undefined, Some(jobId), ev)
     ELSE IF ~appendJobEventSchema(ev)
     THEN InvalidPayload("http:append", request, Undefined, Some(jobId), ev)
     ELSE LET out == appendJobEvent(jobs, jobId,
                        [at |-> now, level |-> ev.level, message |-> ev.message])
          IN /\ jobs' = out.jobs
             /\ last' = HttpCall("http:append", request, Undefined, Some(jobId), ev,
                                 IF out.result = Undefined THEN 404 ELSE 200, out.result)
             /\ UNCHANGED <<runs, jobSeq, runSeq, regVars, workers>>
  /\ UNCHANGED httpFrame

\* POST /api/jobs/:id/complete with {status: 'failed', errorMessage}
HttpCompleteFailed(request, jobId, errorMessage) ==
  /\ Served1
  /\ LET payload == [status |-> "failed", errorMessage |-> errorMessage]
     IN IF ~authorizeWorkerRequest(env, entries, request).ok
        THEN Unauthorized("http:complete", request, Undefined, Some(jobId), payload)
        ELSE IF ~completeJobSchema(payload)
        THEN InvalidPayload("http:complete", request, Undefined, Some(jobId), payload)
        ELSE
          LET out == completeJob(jobs, [jobId |-> jobId, status |-> "failed",
                                        errorMessage |-> Some(errorMessage),
                                        reportId |-> Undefined], now)
          IN /\ jobs' = out.jobs
             /\ last' = HttpCall("http:complete", request, Undefined, Some(jobId), payload,
                                 IF out.result = Undefined THEN 404 ELSE 200, out.result)
             /\ UNCHANGED <<runs, jobSeq, runSeq, regVars, workers>>
  /\ UNCHANGED httpFrame

\* POST /api/jobs/:id/complete with {status: 'completed', report, team,
\* submittedBy}: the run is stored before the job is looked up
HttpCompleteCompleted(request, jobId, team, submittedBy) ==
  /\ Served1
  /\ LET payload == [status |-> "completed", report |-> TRUE, team |-> team,
                     submittedBy |-> submittedBy]
     IN IF ~authorizeWorkerRequest(env, entries, request).ok
        THEN Unauthorized("http:complete", request, Undefined, Some(jobId), payload)
        ELSE IF ~completeJobSchema(payload)
        THEN InvalidPayload("http:complete", request, Undefined, Some(jobId), payload)
        ELSE
          LET runId == runSeq + 1
              out == completeJob(jobs, [jobId |-> jobId, status |-> "completed",
                                        errorMessage |-> Undefined,
                                        reportId |-> Some(runId)], now)
          IN /\ runs' = Append(runs, runId)
             /\ runSeq' = runId
             /\ jobs' = out.jobs
             /\ last' = HttpCall("http:complete", request, Undefined, Some(jobId), payload,
                                 IF out.result = Undefined THEN 404 ELSE 200, out.result)
             /\ UNCHANGED <<jobSeq, regVars, workers>>
  /\ UNCHANGED httpFrame

HttpHeartbeatInputs ==
  {input \in HeartbeatInputs :
     input.currentJobId = Undefined /\ input.host # Undefined /\ input.status = "idle"}
  \cup {[workerId |-> "w1", status |-> "idle", currentJobId |-> Undefined,
          host |-> Some(""), version |-> Some("0.1.0")]}

\* POST /api/workers with a heartbeat
HttpHeartbeat(request, input) ==
  /\ Served1
  /\ LET auth == authorizeWorkerRequest(env, entries, request)
     IN IF ~auth.ok
        THEN Unauthorized("http:heartbeat", request, Some(input.workerId), Undefined,
                          input)
        ELSE IF ~workerHeartbeatSchema(input)
        THEN InvalidPayload("http:heartbeat", request, Some(input.workerId), Undefined,
                            input)
        ELSE IF auth.mode = Some("worker-token") /\ auth.workerId # Some(input.workerId)
        THEN /\ last' = HttpCall("http:heartbeat", request, Some(input.workerId),
                                 Undefined, input, 403, Undefined)
             /\ UNCHANGED <<storeFiles, regVars, workers>>
        ELSE LET updatedWorkers == upsertWorkerHeartbeat(workers, input, now)
             IN /\ workers' = updatedWorkers
                /\ last' = HttpCall("http:heartbeat", request, Some(input.workerId),
                                    Undefined, input, 200,
                                    Some(RowsOf(updatedWorkers, input.workerId)[1]))
                /\ UNCHANGED <<storeFiles, regVars>>
  /\ UNCHANGED httpFrame

\* what the caller of a registry route learns when it is served
LearnRegistry(op, workerId, tokens) ==
  /\ issued' = IF op = "revoke" THEN [issued EXCEPT ![workerId] = Undefined]
               ELSE [issued EXCEPT ![workerId] = tokens]
  /\ revoked' = IF op = "revoke"
                THEN revoked \cup {[workerId |-> workerId, token |-> tok] : tok \in tokens}
                ELSE revoked

\* GET /api/workers/registry: the entries without their digests (their order
\* in the response is left out)
HttpRegistryList(request) ==
  /\ Served1
  /\ IF ~checkAdminAuthHeader(env, request.authorization)
     THEN Unauthorized("http:registry.list", request, Undefined, Undefined, Undefined)
     ELSE /\ last' = HttpCall("http:registry.list", request, Undefined, Undefined,
                        Undefined, 200,
                        Some({[workerId |-> e.workerId, createdAt |-> e.createdAt,
                               revokedAt |-> e.revokedAt] : e \in Range(entries)}))
          /\ UNCHANGED <<storeFiles, regVars, workers>>
  /\ UNCHANGED httpFrame

\* POST /api/workers/registry with {workerId}, and
\* POST /api/workers/registry/:workerId (rotate)
HttpRegister(request, op, workerId) ==
  /\ Served1
  /\ IF ~checkAdminAuthHeader(env, request.authorization)
     THEN Unauthorized("http:registry." \o op, request, Some(workerId), Undefined,
                       Undefined)
     ELSE LET out == IF op = "rotate"
                     THEN rotateWorkerToken(entries, workerId, tokSeq + 1, now)
                     ELSE registerWorkerToken(entries, workerId, tokSeq + 1, now)
          IN /\ entries' = out.list
             /\ tokSeq' = tokSeq + 1
             /\ LearnRegistry(op, workerId, Some(tokSeq + 1))
             /\ last' = HttpCall("http:registry." \o op, request, Some(workerId), Undefined,
                                 Undefined, IF op = "rotate" THEN 200 ELSE 201, out.result)
             /\ UNCHANGED <<storeFiles, workers>>
  /\ UNCHANGED httpFrame

HttpRevoke_DropsRow(request, workerId) ==
  /\ Served1
  /\ IF ~checkAdminAuthHeader(env, request.authorization)
     THEN Unauthorized("http:registry.revoke", request, Some(workerId), Undefined,
                       Undefined)
     ELSE LET out == revokeWorkerToken(entries, workerId, now)
          IN /\ entries' = out.list
             /\ workers' = SelectSeq(workers, LAMBDA row : row.workerId # workerId)
             /\ IF out.result = Undefined THEN UNCHANGED <<issued, revoked>>
                ELSE LearnRegistry("revoke", workerId, TokensOf(entries, workerId))
             /\ last' = HttpCall("http:registry.revoke", request, Some(workerId), Undefined,
                                 Undefined, IF out.result = Undefined THEN 404 ELSE 200,
                                 out.result)
             /\ UNCHANGED <<tokSeq, storeFiles>>
  /\ UNCHANGED httpFrame

\* DELETE /api/workers/registry/:workerId
HttpRevoke(request, workerId) ==
  /\ Served1
  /\ IF ~checkAdminAuthHeader(env, request.authorization)
     THEN Unauthorized("http:registry.revoke", request, Some(workerId), Undefined,
                       Undefined)
     ELSE LET out == revokeWorkerToken(entries, workerId, now)
          IN /\ entries' = out.list
             /\ IF out.result = Undefined THEN UNCHANGED <<issued, revoked>>
                ELSE LearnRegistry("revoke", workerId, TokensOf(entries, workerId))
             /\ last' = HttpCall("http:registry.revoke", request, Some(workerId), Undefined,
                                 Undefined, IF out.result = Undefined THEN 404 ELSE 200,
                                 out.result)
             /\ UNCHANGED <<tokSeq, storeFiles, workers>>
  /\ UNCHANGED httpFrame

NextHttp ==
  \/ Tick
  \/ \E request \in Requests, team \in Teams \cup {""}, by \in Submitters, cfg \in Configs :
        HttpCreate(request, team, by, cfg)
  \/ \E request \in Requests, w \in Workers \cup {""} : HttpClaim(request, w)
  \/ \E request \in Requests, j \in JobIds,
        ev \in {[level |-> "info", message |-> m] : m \in {"m1", ""}} :
        HttpAppend(request, j, ev)
  \/ \E request \in Requests, j \in JobIds, m \in ErrorMessages \cup {""} :
        HttpCompleteFailed(request, j, m)
  \/ \E request \in Requests, j \in JobIds, team \in Teams \cup {""}, by \in Submitters :
        HttpCompleteCompleted(request, j, team, by)
  \/ \E request \in Requests, input \in HttpHeartbeatInputs : HttpHeartbeat(request, input)
  \/ \E request \in Requests : HttpRegistryList(request)
  \/ \E request \in Requests, op \in {"register", "rotate"}, w \in Workers :
        HttpRegister(request, op, w)
  \/ \E request \in Requests, w \in Workers : HttpRevoke(request, w)

SpecHttp == InitHttp /\ [][NextHttp]_vars

\* ------------------------------------------------------------- file system
\* readFile and writeFile on a store file that exists either succeed or fail
\* with an I/O error (EACCES, EMFILE, EIO, ...).  ensureStore reads the file
\* and, when that read fails, writes '[]' to it; the store's read function
\* then reads the file again and parses it.
FsOutcomes == {"ok", "fail"}

\* ensureStore: the file's contents afterwards, and whether it threw
ensureStore(file, read, write) ==
  IF read = "ok" THEN [file |-> file, threw |-> FALSE]
  ELSE IF write = "ok" THEN [file |-> <<>>, threw |-> FALSE]
  ELSE [file |-> file, threw |-> TRUE]

\* readJobs / readEntries / readWorkers: ensureStore, then readFile and
\* JSON.parse; `read2` is the outcome of the second readFile
readStore(file, read, write, read2) ==
  LET ensured == ensureStore(file, read, write)
  IN IF ensured.threw THEN [file |-> file, threw |-> TRUE, list |-> <<>>]
     ELSE IF read2 = "fail" THEN [file |-> ensured.file, threw |-> TRUE, list |-> <<>>]
     ELSE [file |-> ensured.file, threw |-> FALSE, list |-> ensured.file]

\* the fs outcomes of one store call: the second read happens only when
\* ensureStore returned, the write in ensureStore only when its read failed
FsRuns ==
  {<<"ok", "ok", "ok">>, <<"ok", "ok", "fail">>, <<"fail", "ok", "ok">>,
   <<"fail", "ok", "fail">>, <<"fail", "fail", "ok">>}

Faulty(fs) == fs # <<"ok", "ok", "ok">>

\* a store call met an I/O failure: one of the failures this behaviour may have
Failing(fs) ==
  IF Faulty(fs) THEN faults < MaxFaults /\ faults' = faults + 1 ELSE UNCHANGED faults

\* a store call as its caller sees it: whether it threw, and what it returned
FsCall(op, threw, res) == [op |-> op, threw |-> threw, result |-> res]

fsFrame == <<now, pend, returned, acked, agent, handled, env, reports>>

\* createJob
FsCreateJob(fs, team, submittedBy, config) ==
  /\ Called
  /\ jobSeq < MaxJobs
  /\ Failing(fs)
  /\ LET read == readStore(jobs, fs[1], fs[2], fs[3])
         out == createJob(read.list, jobSeq + 1, now,
                          [team |-> team, submittedBy |-> submittedBy, config |-> config])
     IN /\ jobs' = IF read.threw THEN read.file ELSE out.jobs
        /\ last' = FsCall("create", read.threw, IF read.threw THEN Undefined ELSE out.result)
  /\ jobSeq' = jobSeq + 1
  /\ UNCHANGED <<runs, runSeq, entries, tokSeq, workers, issued, revoked>>
  /\ UNCHANGED fsFrame

\* claimNextQueuedJob
FsClaimNext(fs, workerId) ==
  /\ Called
  /\ Failing(fs)
  /\ LET read == readStore(jobs, fs[1], fs[2], fs[3])
         out == claimNextQueuedJob(read.list, workerId, now)
     IN /\ jobs' = IF read.threw \/ ~out.wrote THEN read.file ELSE out.jobs
        /\ last' = FsCall("claim", read.threw, IF read.threw THEN Undefined ELSE out.result)
  /\ UNCHANGED <<runs, jobSeq, runSeq, entries, tokSeq, workers, issued, revoked>>
  /\ UNCHANGED fsFrame

\* registerWorkerToken
FsRegister(fs, workerId) ==
  /\ Called
  /\ Failing(fs)
  /\ LET read == readStore(entries, fs[1], fs[2], fs[3])
         out == registerWorkerToken(read.list, workerId, tokSeq + 1, now)
     IN /\ entries' = IF read.threw THEN read.file ELSE out.list
        /\ last' = FsCall("register", read.threw, IF read.threw THEN Undefined ELSE out.result)
        /\ IF read.threw THEN UNCHANGED <<issued, revoked>>
           ELSE LearnRegistry("register", workerId, Some(tokSeq + 1))
  /\ tokSeq' = tokSeq + 1
  /\ UNCHANGED <<storeFiles, workers>>
  /\ UNCHANGED fsFrame

\* verifyWorkerToken
FsVerify(fs, workerId, token) ==
  /\ Called
  /\ Failing(fs)
  /\ LET read == readStore(entries, fs[1], fs[2], fs[3])
     IN /\ entries' = read.file
        /\ last' = FsCall("verify", read.threw,
                          IF read.threw THEN Undefined
                          ELSE Some(verifyWorkerToken(read.list, workerId, token)))
  /\ UNCHANGED <<storeFiles, tokSeq, workers, issued, revoked>>
  /\ UNCHANGED fsFrame

\* upsertWorkerHeartbeat
FsHeartbeat(fs, input) ==
  /\ Called
  /\ Failing(fs)
  /\ LET read == readStore(workers, fs[1], fs[2], fs[3])
         updatedWorkers == upsertWorkerHeartbeat(read.list, input, now)
     IN /\ workers' = IF read.threw THEN read.file ELSE updatedWorkers
        /\ last' = FsCall("heartbeat", read.threw,
                          IF read.threw THEN Undefined
                          ELSE Some(RowsOf(updatedWorkers, input.workerId)[1]))
  /\ UNCHANGED <<storeFiles, entries, tokSeq, issued, revoked>>
  /\ UNCHANGED fsFrame

NextFs ==
  \/ Tick
  \/ \E fs \in FsRuns, team \in Teams, by \in Submitters, cfg \in Configs :
        FsCreateJob(fs, team, by, cfg)
  \/ \E fs \in FsRuns, w \in Workers : FsClaimNext(fs, w)
  \/ \E fs \in FsRuns, w \in Workers : FsRegister(fs, w)
  \/ \E fs \in FsRuns, w \in Workers, tok \in 1..(tokSeq + 1) : FsVerify(fs, w, tok)
  \/ \E fs \in FsRuns, input \in HttpHeartbeatInputs : FsHeartbeat(fs, input)

SpecFs == Init /\ [][NextFs]_vars

\* ------------------------------------------------------------ properties
\* this step is a call of `op` (a call that returns)
Returns(op) == calls' = calls + 1 /\ last'.op = op

\* C2: complete on a job that is already completed or failed is a no-op: its
\* status, finishedAt, reportId and errorMessage keep the values of the first
\* completion.
C2_CompleteTerminalNoOp ==
  [][\A j \in Range(jobs), k \in Range(jobs') :
       (/\ Returns("complete")
        /\ last'.jobId = Some(j.id)
        /\ k.id = j.id
        /\ j.status \in {"completed", "failed"})
       => /\ k.status = j.status
          /\ k.finishedAt = j.finishedAt
          /\ k.reportId = j.reportId
          /\ k.errorMessage = j.errorMessage]_vars

\* C3: job status only moves forward: a job that is completed, failed or
\* cancelled never has a different status afterwards.
C3_TerminalStatusStays ==
  [][\A j \in Range(jobs), k \in Range(jobs') :
       (k.id = j.id /\ j.status \in Terminal) => k.status = j.status]_vars

\* C4: a job has a workerId if and only if its status is running, completed
\* or failed; a completed or failed job always has one, a queued job never.
C4_WorkerIdIffClaimed ==
  \A j \in Range(jobs) :
     (j.workerId # Undefined) <=> (j.status \in {"running", "completed", "failed"})

\* C8: for calls that do not overlap, a job's events list is append-only:
\* after each call the list before the call is a prefix of the list after it,
\* and appendEvent puts its event at the end, so events keep the order of
\* the calls.
C8_EventsAppendOnly ==
  [][/\ \A j \in Range(jobs) : \E k \in Range(jobs') :
          k.id = j.id /\ IsPrefix(j.events, k.events)
     /\ (Returns("append") /\ last'.result # Undefined)
        => \A j \in Range(jobs) :
              last'.jobId = Some(j.id)
              => \E k \in Range(jobs') :
                    k.id = j.id /\ k.events = Append(j.events, TheOne(last'.event))]_vars

\* two events appended one after the other are read back in that order
C8_Witness ==
  \E j \in Range(jobs) :
     /\ Len(j.events) >= 3
     /\ j.events[2].message = "m1"
     /\ j.events[3].message = "m2"
     /\ last.op = "append"

\* C10: claimNext on a store with a queued job picks the queued job with the
\* smallest createdAt (the one created first), makes it running, bound to the
\* caller, with startedAt set and exactly one 'Claimed by <workerId>' event
\* appended, returns it, and leaves every other job unchanged.
C10_ClaimOldestQueued ==
  [][(Returns("claim") /\ \E q \in Range(jobs) : q.status = "queued")
     => \E i \in DOMAIN jobs :
          LET q == jobs[i]
              w == TheOne(last'.workerId)
          IN /\ q.status = "queued"
             /\ \A k \in Range(jobs) :
                   k.status = "queued" => (q.createdAt <= k.createdAt /\ q.id <= k.id)
             /\ DOMAIN jobs' = DOMAIN jobs
             /\ \A n \in DOMAIN jobs : n # i => jobs'[n] = jobs[n]
             /\ last'.result = Some(jobs'[i])
             /\ jobs'[i] = [q EXCEPT !.status = "running",
                                     !.workerId = Some(w),
                                     !.startedAt = Some(now),
                                     !.updatedAt = now,
                                     !.events = Append(q.events,
                                        [at |-> now, level |-> "info",
                                         message |-> "Claimed by " \o w])]]_vars

\* the older of two queued jobs has been claimed, the younger is still queued
C10_Witness ==
  /\ last.op = "claim"
  /\ \E r \in last.result : \E k \in Range(jobs) :
        /\ r \in Range(jobs)
        /\ r.status = "running"
        /\ k.status = "queued"
        /\ k.createdAt > r.createdAt

\* C1: under every interleaving of overlapping claimNext calls, no job is
\* returned to two different workers.
C1_EachJobClaimedOnce ==
  \A a \in returned, b \in returned : a.jobId = b.jobId => a.workerId = b.workerId

\* C9: every appendEvent that returned the job has its event in that job's
\* events in all later states, also when the calls overlap.
C9_AckedEventsKept ==
  \A a \in acked : \E j \in Range(jobs) : j.id = a.jobId /\ a.event \in Range(j.events)

\* C6: once revoke(w) has returned, the token that was active for w never
\* verifies true again, whatever registry calls overlap with the revoke; and
\* a token returned by register/rotate verifies true when that call returns.
C6_RevokedStaysRevoked ==
  [][/\ \A r \in revoked' : ~verifyWorkerToken(entries', r.workerId, r.token)
     /\ \A h \in Handlers :
          (/\ pend[h].stage = "write" /\ pend'[h].stage = "idle"
           /\ pend[h].call.op \in {"register", "rotate"})
          => \A tok \in pend[h].call.tokens :
                verifyWorkerToken(entries', pend[h].call.workerId, tok)]_vars

\* C7: for registry calls made one after the other, verify(w, token) is true
\* exactly when token is the one the last register/rotate for w returned and
\* no revoke for w has returned since (so false for an unknown worker, a
\* revoked worker, a superseded or never issued token), a verify call returns
\* that value, and verify never changes the registry.
C7_VerifyMatchesIssued ==
  [][/\ \A w \in Workers, tok \in 1..(tokSeq' + 1) :
          verifyWorkerToken(entries', w, tok) <=> (tok \in issued'[w])
     /\ (calls' = calls + 1 /\ last'.op = "verify")
        => /\ entries' = entries
           /\ last'.result = Some(last'.tokens \subseteq issued[last'.workerId])]_vars

\* register, rotate, revoke done on one worker id, and the rotated token has
\* just been refused
C7_Witness ==
  /\ last.op = "verify"
  /\ last.result = Some(FALSE)
  /\ last.tokens = Some(2)
  /\ \E i \in DOMAIN entries :
        /\ entries[i].workerId = last.workerId
        /\ entries[i].tokenHash = sha256(2)
        /\ entries[i].revokedAt # Undefined

\* C5: every job a worker agent has claimed reaches a terminal status: once
\* the agent is done with the job (it has left the try/catch, or the process
\* has ended), the job is completed or failed, also when a reporting call
\* throws or is answered with a non-OK status.
C5_ClaimedJobsEnd ==
  \A j \in Range(jobs) : j.id \in handled => j.status \in {"completed", "failed"}

\* C11: claimNext called when no job is queued returns none (204 at the claim
\* endpoint), never an error, and leaves the job store unchanged.
C11_ClaimNoneWhenEmpty ==
  [][(Returns("claim") /\ \A j \in Range(jobs) : j.status # "queued")
     => /\ last'.result = Undefined
        /\ ClaimResponse(last'.result) = 204
        /\ jobs' = jobs
        /\ runs' = runs]_vars

\* a claim has returned none from a store that holds jobs, none of them queued
C11_Witness ==
  /\ last.op = "claim"
  /\ last.result = Undefined
  /\ jobs # <<>>
  /\ \E j \in Range(jobs) : j.status = "running"
  /\ \E j \in Range(jobs) : j.status \in {"completed", "failed"}

\* C19: create adds exactly one job, with a fresh id, status queued, workerId,
\* startedAt, finishedAt, errorMessage and reportId unset and one 'Job queued'
\* event; it returns that job and changes no job that was there.
C19_CreateAddsOneQueuedJob ==
  [][Returns("create")
     => /\ last'.result # Undefined
        /\ Len(jobs') = Len(jobs) + 1
        /\ \A i \in DOMAIN jobs : jobs'[i] = jobs[i]
        /\ LET job == jobs'[Len(jobs')]
           IN /\ last'.result = Some(job)
              /\ \A j \in Range(jobs) : j.id # job.id
              /\ job.status = "queued"
              /\ job.workerId = Undefined
              /\ job.startedAt = Undefined
              /\ job.finishedAt = Undefined
              /\ job.errorMessage = Undefined
              /\ job.reportId = Undefined
              /\ Len(job.events) = 1
              /\ job.events[1].message = "Job queued"
              /\ job.createdAt = now /\ job.updatedAt = now]_vars

\* a job has been created in a store that already held a job in another status
C19_Witness ==
  /\ last.op = "create"
  /\ Len(jobs) = 2
  /\ jobs[1].status # "queued"
  /\ last.result = Some(jobs[2])

\* C20: a job has errorMessage set only if its status is failed and reportId
\* set only if its status is completed, also after a failed report followed
\* by a completed one and the reverse.
C20_ErrorAndReportMatchStatus ==
  \A j \in Range(jobs) :
     /\ j.errorMessage # Undefined => j.status = "failed"
     /\ j.reportId # Undefined => j.status = "completed"

\* a job reported failed, then completed
C20_Witness ==
  \E j \in Range(jobs) :
     /\ j.status = "completed"
     /\ \E i \in DOMAIN j.events : j.events[i].message = "Job failed: boom"

\* the entries of `es` that belong to `workerId`, in file order
EntriesOf(es, workerId) == SelectSeq(es, LAMBDA entry : entry.workerId = workerId)

\* C13: the credential registry holds at most one entry, so at most one
\* active credential, per worker id: register or rotate for a worker id that
\* has an entry replaces it, and leaves the entries of the other worker ids
\* as they were.
C13_OneEntryPerWorker ==
  [][/\ \A w \in Workers : Len(EntriesOf(entries', w)) <= 1
     /\ (calls' = calls + 1 /\ last'.op \in {"register", "rotate"})
        => /\ \A w \in Workers \ {last'.workerId} :
                 EntriesOf(entries', w) = EntriesOf(entries, w)
           /\ EntriesOf(entries', last'.workerId) =
                 <<[workerId |-> last'.workerId,
                    tokenHash |-> sha256(TheOne(last'.tokens)),
                    createdAt |-> now, revokedAt |-> Undefined]>>]_vars

\* a worker whose credential was revoked has been registered again, next to
\* another worker's entry
C13_Witness ==
  /\ last.op \in {"register", "rotate"}
  /\ Len(entries) = 2
  /\ \E r \in revoked : r.workerId = last.workerId
  /\ verifyWorkerToken(entries, last.workerId, TheOne(last.tokens))

\* the ids of the jobs whose createJob has not returned yet
BeingCreated ==
  {r.id : r \in UNION {pend[h].call.result : h \in {k \in Handlers :
                          pend[k].stage = "write" /\ pend[k].call.op = "create"}}}

\* C18: jobs are never deleted: once create has returned a job, a job with
\* that id is in the store in every later state, whatever create, claimNext,
\* appendEvent and complete calls follow or overlap.
C18_JobsNeverDeleted ==
  \A id \in (1..jobSeq) \ BeingCreated : \E j \in Range(jobs) : j.id = id

\* C12: after any heartbeat calls, overlapping ones included, the worker
\* directory has exactly one row for every worker id that has sent a
\* heartbeat: a returning heartbeat leaves one row for its worker id, holding
\* its status, currentJobId and lastSeenAt; no worker id has two rows; no
\* row is ever lost.
C12_OneRowPerWorker ==
  [][/\ \A w \in Workers : Len(RowsOf(workers', w)) <= 1
     /\ \A w \in Workers : RowsOf(workers, w) # <<>> => RowsOf(workers', w) # <<>>
     /\ \A h \in Handlers :
          (/\ pend[h].stage = "write" /\ pend'[h].stage = "idle"
           /\ pend[h].call.op = "heartbeat")
          => LET input == pend[h].call.input
                 rows == RowsOf(workers', input.workerId)
             IN /\ Len(rows) = 1
                /\ rows[1].status = input.status
                /\ rows[1].currentJobId = input.currentJobId
                /\ Some(rows[1].lastSeenAt) = pend[h].at]_vars

\* the request presents the admin bearer secret of this deployment
PresentsAdminSecret(request) == env # Undefined /\ request.authorization = env

\* the request presents a worker id and the token that is valid for it
PresentsWorkerToken(request) ==
  /\ request.workerId # Undefined
  /\ request.workerToken # Undefined
  /\ verifyWorkerToken(entries, TheOne(request.workerId), TheOne(request.workerToken))

WorkerScoped == {"http:claim", "http:append", "http:complete", "http:heartbeat"}

RegistryScoped == {"http:registry.list", "http:registry.register",
                   "http:registry.rotate", "http:registry.revoke"}

\* C14: claim next, append event, complete job and heartbeat authorize a
\* request that presents the admin bearer secret or a valid, non-revoked
\* worker id/token pair (a worker with only its token can claim jobs); the
\* registry endpoints authorize the admin bearer secret and nothing else.
C14_WorkerOrAdminAuthorized ==
  [][/\ (calls' = calls + 1 /\ last'.op \in WorkerScoped
         /\ (PresentsAdminSecret(last'.request) \/ PresentsWorkerToken(last'.request)))
        => last'.status # 401
     /\ (calls' = calls + 1 /\ last'.op \in RegistryScoped)
        => (last'.status # 401 <=> PresentsAdminSecret(last'.request))]_vars

\* C15: with INGEST_API_KEY set or unset, a claim, append-event or complete
\* request that carries neither the admin bearer secret nor a valid worker
\* token is rejected and changes no job.
C15_OnlyApprovedWorkers ==
  [][(/\ calls' = calls + 1
      /\ last'.op \in {"http:claim", "http:append", "http:complete"}
      /\ ~PresentsAdminSecret(last'.request)
      /\ ~PresentsWorkerToken(last'.request))
     => /\ last'.status = 401
        /\ jobs' = jobs
        /\ runs' = runs]_vars

\* C16: a running job bound to worker W is completed or failed only by W's
\* own report: a complete request authenticated as another worker leaves the
\* job as it is.
C16_OnlyOwnerCompletes ==
  [][\A i \in DOMAIN jobs :
       (/\ calls' = calls + 1
        /\ last'.op = "http:complete"
        /\ jobs[i].status = "running"
        /\ LET auth == authorizeWorkerRequest(env, entries, last'.request)
           IN auth.ok /\ auth.mode = Some("worker-token")
              /\ auth.workerId # jobs[i].workerId)
       => (i \in DOMAIN jobs' /\ jobs'[i] = jobs[i])]_vars

\* the store file a call works on
StoreOf(op, js, es, ws) ==
  IF op \in {"create", "claim"} THEN js
  ELSE IF op \in {"register", "verify"} THEN es
  ELSE ws

\* C17: a failure to read a store file is propagated to the caller as an
\* error, never turned into 'not found' or an empty collection: a store call
\* during which a read of a file that holds records failed throws, and the
\* jobs, credential entries and worker rows that were in the files are still
\* there.
C17_ReadFailurePropagates ==
  [][(faults' = faults + 1 /\ StoreOf(last'.op, jobs, entries, workers) # <<>>)
     => /\ last'.threw
        /\ \A j \in Range(jobs) : \E k \in Range(jobs') : k.id = j.id
        /\ \A e \in Range(entries) : \E k \in Range(entries') : k.workerId = e.workerId
        /\ \A r \in Range(workers) : \E k \in Range(workers') : k.workerId = r.workerId]_vars

\* C21: appendEvent for a known job id appends exactly that event and sets
\* updatedAt to the event's time, whatever the job's status, and leaves
\* status, workerId, startedAt, finishedAt, errorMessage and reportId (and
\* every other job) unchanged; for an unknown job id it returns not-found
\* and leaves the store unchanged.
C21_AppendTouchesEventsOnly ==
  [][Returns("append")
     => LET jobId == TheOne(last'.jobId)
            event == TheOne(last'.event)
        IN IF \E j \in Range(jobs) : j.id = jobId
           THEN /\ DOMAIN jobs' = DOMAIN jobs
                /\ \A i \in DOMAIN jobs :
                     IF jobs[i].id # jobId THEN jobs'[i] = jobs[i]
                     ELSE /\ jobs'[i] = [jobs[i] EXCEPT !.events = Append(@, event),
                                                       !.updatedAt = event.at]
                          /\ last'.result = Some(jobs'[i])
                /\ event.at = now
           ELSE /\ last'.result = Undefined
                /\ jobs' = jobs]_vars

\* an event has been appended to a job that is completed or failed
C21_Witness ==
  /\ last.op = "append"
  /\ \E r \in last.result :
        /\ r.status \in {"completed", "failed"}
        /\ r.events[Len(r.events)] = TheOne(last.event)
        /\ r.events[Len(r.events) - 1].message \in {"Job completed", "Job failed: boom"}

\* C29: the id, createdAt, team, submittedBy and config of a job are fixed at
\* creation: no claimNext, appendEvent or complete call changes them.
C29_CreationFieldsFixed ==
  [][\A i \in DOMAIN jobs :
       /\ i \in DOMAIN jobs'
       /\ jobs'[i].id = jobs[i].id
       /\ jobs'[i].createdAt = jobs[i].createdAt
       /\ jobs'[i].team = jobs[i].team
       /\ jobs'[i].submittedBy = jobs[i].submittedBy
       /\ jobs'[i].config = jobs[i].config]_vars

\* a job created at time 0 has been claimed, given an event and completed at
\* later times
C29_Witness ==
  \E j \in Range(jobs) :
     /\ j.createdAt = 0
     /\ j.startedAt = Some(1)
     /\ j.finishedAt = Some(2)
     /\ Len(j.events) >= 4

\* C22: revoke for a worker id without an entry fails with not-found and
\* leaves the registry unchanged; for a worker id with an entry it sets
\* revokedAt on that entry and leaves every other entry unchanged.
C22_RevokeOneEntryOrNotFound ==
  [][(calls' = calls + 1 /\ last'.op = "revoke")
     => LET w == last'.workerId
        IN IF \E e \in Range(entries) : e.workerId = w
           THEN /\ last'.result = Some([workerId |-> w, revokedAt |-> now])
                /\ DOMAIN entries' = DOMAIN entries
                /\ \A i \in DOMAIN entries :
                     entries'[i] = IF entries[i].workerId = w
                                   THEN [entries[i] EXCEPT !.revokedAt = Some(now)]
                                   ELSE entries[i]
           ELSE /\ last'.result = Undefined
                /\ entries' = entries]_vars

\* a revoke has succeeded for a registered worker id, and the next one has
\* failed for a worker id that has no entry
C22_Witness ==
  /\ last.op = "revoke"
  /\ last.result = Undefined
  /\ \A e \in Range(entries) : e.workerId # last.workerId
  /\ \E r \in revoked : \E e \in Range(entries) :
        e.workerId = r.workerId /\ e.revokedAt # Undefined

TargetOf(call) == IF call.op = "claim" THEN {r.id : r \in call.result} ELSE call.jobId

\* C26: mutations are linearizable per job: a claimNext, appendEvent or
\* complete call on job A that overlaps a call on another job B never
\* changes or reverts B's record, so the store holds the effect of both.
C26_OtherJobsUntouched ==
  [][\A h \in Handlers :
       (/\ pend[h].stage = "write" /\ pend'[h].stage = "idle"
        /\ pend[h].call.op \in {"claim", "append", "complete"})
       => \A i \in DOMAIN jobs :
             jobs[i].id \notin TargetOf(pend[h].call)
             => (i \in DOMAIN jobs' /\ jobs'[i] = jobs[i])]_vars

\* the jobs the store binds to worker w, and those of them that are running
BoundTo(w) == {r \in Range(jobs) : r.workerId = Some(w)}

RunningOn(w) == {r \in BoundTo(w) : r.status = "running"}

\* C24: an agent started with --once that has terminated normally has claimed
\* exactly one job and sent a terminal report for exactly that job, whatever
\* the queue held at its first poll.
C24_OnceRunsOneJob ==
  \A w \in Agents :
    (agent[w].once /\ agent[w].pc = "exited")
    => /\ Cardinality(BoundTo(w)) = 1
       /\ {r.jobId : r \in {x \in reports : x.workerId = w}}
             = {r.id : r \in BoundTo(w)}

\* C25: whenever a job is running and bound to a worker, that worker's row
\* in the worker store says busy with that job as its current job.
C25_RunningMeansBusyRow ==
  \A w \in Agents : \A r \in RunningOn(w) :
    \E row \in Range(workers) :
      /\ row.workerId = w
      /\ row.status = "busy"
      /\ row.currentJobId = Some(r.id)

\* C27: no claimed job gets both a completion report and a failure report
\* from its worker: once the completion report was answered OK, no failure
\* report for the same job is ever sent.
C27_NeverCompletedAndFailed ==
  \A c \in reports, f \in reports :
    (c.status = "completed" /\ c.ok /\ f.status = "failed")
    => c.jobId # f.jobId

\* C28: a worker agent runs its jobs one after the other, so at most one
\* job in the store is running and bound to a given worker.
C28_OneRunningJobPerWorker ==
  \A w \in Agents : Cardinality(RunningOn(w)) <= 1

\* the check a route makes on the request's headers before it reads the body
Authorized(op, request) ==
  IF op \in {"http:create", "http:claim"}
  THEN checkAuthHeader(env, request.authorization)
  ELSE IF op \in RegistryScoped
  THEN checkAdminAuthHeader(env, request.authorization)
  ELSE authorizeWorkerRequest(env, entries, request).ok

\* the request bodies that break a min(1) rule of the route's schema
InvalidBody(call) ==
  CASE call.op = "http:create" -> call.payload.team = ""
    [] call.op = "http:claim" -> call.payload.workerId = ""
    [] call.op = "http:append" -> call.payload.message = ""
    [] call.op = "http:complete" ->
         \/ call.payload.status = "failed" /\ call.payload.errorMessage = ""
         \/ call.payload.status = "completed" /\ call.payload.team = ""
    [] call.op = "http:heartbeat" -> call.payload.host = Some("")
    [] OTHER -> FALSE

C31_UpdatedAtNeverDecreases ==
  [][\A i \in DOMAIN jobs :
       i \in DOMAIN jobs' => jobs'[i].updatedAt >= jobs[i].updatedAt]_vars

\* C32: a request that fails the authentication check of its endpoint gets
\* status 401 with the same body, whichever check failed: no credentials, a
\* wrong admin secret, an unknown worker id, a wrong or a revoked worker
\* token are answered alike.
C32_UniformUnauthorized ==
  [][(calls' = calls + 1 /\ ~Authorized(last'.op, last'.request))
     => /\ last'.status = 401
        /\ last'.result = Undefined]_vars

\* a worker whose token was revoked has presented it to the events endpoint
\* and got 401
C32_Witness ==
  /\ last.op = "http:append"
  /\ last.status = 401
  /\ \E w \in Workers :
        /\ last.request.workerId = Some(w)
        /\ \E r \in revoked : r.workerId = w /\ last.request.workerToken = Some(r.token)

\* C33: the job store, the worker directory and the credential registry are
\* independent: a registry request (with the verification of a worker token)
\* changes no job and no worker-directory row, a create, claim, append or
\* complete request changes neither the registry nor the worker directory,
\* and a heartbeat changes no job and no credential.
C33_StoresIndependent ==
  [][calls' = calls + 1
     => /\ last'.op \in RegistryScoped => UNCHANGED <<jobs, runs, workers>>
        /\ last'.op \in {"http:create", "http:claim", "http:append", "http:complete"}
             => UNCHANGED <<entries, workers>>
        /\ last'.op = "http:heartbeat" => UNCHANGED <<jobs, runs, entries>>]_vars

\* a worker's credential has been revoked while the job store holds a job and
\* the worker directory holds that worker's row
C33_Witness ==
  /\ last.op = "http:registry.revoke"
  /\ last.status = 200
  /\ jobs # <<>>
  /\ \E row \in Range(workers) : last.workerId = Some(row.workerId)

\* C34: no operation sets a job's status to cancelled: the status of every
\* job in the store is queued, running, completed or failed.
C34_NeverCancelled ==
  \A job \in Range(jobs) : job.status \in JobStatus \ {"cancelled"}

\* a failure report has ended a job that was still queued, and another job
\* has been claimed
C34_Witness ==
  /\ last.op = "complete"
  /\ \E job \in Range(jobs) : job.status = "failed" /\ job.workerId = Undefined
  /\ \E job \in Range(jobs) : job.status = "running"

\* C35: in every state of the job store, finishedAt is set exactly when the
\* status is completed or failed, and startedAt is set exactly when workerId
\* is set.
C35_TimestampsMatchStatus ==
  \A job \in Range(jobs) :
    /\ job.finishedAt # Undefined <=> job.status \in {"completed", "failed"}
    /\ job.startedAt # Undefined <=> job.workerId # Undefined

\* one job was claimed and then completed, another was reported failed
\* while it was still queued
C35_Witness ==
  /\ \E job \in Range(jobs) :
        job.status = "completed" /\ job.startedAt # Undefined /\ job.finishedAt # Undefined
  /\ \E job \in Range(jobs) :
        job.status = "failed" /\ job.startedAt = Undefined /\ job.finishedAt # Undefined

\* the positions of the 'Claimed by <workerId>' events in a job's events
ClaimedEvents(job) ==
  {i \in DOMAIN job.events :
     job.events[i].message \in {"Claimed by " \o w : w \in Workers}}

C37_CompletedJobHasStoredRun ==
  \A job \in Range(jobs) :
    job.status = "completed"
    => job.reportId # Undefined /\ job.reportId \subseteq Range(runs)

JobIs(id, statuses) == \E job \in Range(jobs) : job.id = id /\ job.status \in statuses

\* C39: with a worker agent polling in loop mode and every control-plane
\* call succeeding, every queued job is eventually claimed and eventually
\* completed or failed, and a job is claimed only when no job created before
\* it is still queued.
C39_QueuedJobsFinish ==
  /\ \A id \in 1..MaxJobs :
        JobIs(id, {"queued"}) ~> JobIs(id, {"running", "completed", "failed"})
  /\ \A id \in 1..MaxJobs :
        JobIs(id, {"queued"}) ~> JobIs(id, {"completed", "failed"})
  /\ [][\A i \in DOMAIN jobs :
          (jobs[i].status = "queued" /\ jobs'[i].status = "running")
          => \A k \in DOMAIN jobs : jobs[k].status = "queued" => i <= k]_vars

\* the agent has run two jobs in the order they were created: the first is
\* completed, the second failed
C39_Witness ==
  /\ Len(jobs) = 2
  /\ jobs[1].status = "completed" /\ jobs[1].workerId = Some("w1")
  /\ jobs[2].status = "failed" /\ jobs[2].workerId = Some("w1")
  /\ jobs[1].finishedAt # jobs[2].startedAt
  /\ ~agent["w1"].once

====
